---- MODULE Spec2Model ----
(***************************************************************************)
(* Model of the `init` command of create-bevy (src/src/commands/init.ts). *)
(*                                                                         *)
(* One run of the command is a state machine: pc is the position of the   *)
(* async function init (each await is a step), argv/initMode are the      *)
(* parsed command line, lookpathResult/repoFile/fs0 are the environment   *)
(* the run finds (executables on PATH, repositories.json, the destination *)
(* directory), and asked/ops record the questions shown and the            *)
(* side-effecting calls issued, in order.                                  *)
(*                                                                         *)
(* The manifest patch, the descriptor patch, the .gitignore merge and cmd  *)
(* are in addition modelled on their own, each with its own specification  *)
(* (ManifestSpec, DescriptorSpec, GitignoreSpec, CmdSpec) over its own     *)
(* variable, so that their inputs can be varied widely.  So are the        *)
(* scripts the package template ships (the cloud-test runner, the link     *)
(* scripts and link-rbxts-packages; src/unnamed and                        *)
(* src/templates/package/scripts): PollSpec, RunnerSpec, LinkSpec and      *)
(* PackagesSpec.                                                           *)
(***************************************************************************)
EXTENDS Integers, Sequences, FiniteSets, TLC

VARIABLES
    argv,            \* yargs.Arguments<InitOptions>
    initMode,        \* the InitMode the handler passed to init
    lookpathResult,  \* environment: how lookpath(tool) settles for each tool
    repoFile,        \* environment: PACKAGE_ROOT/repositories.json
    fs0,             \* environment: the destination as the run found it
    fs,              \* the destination now
    pc,              \* position of the run
    err,             \* the error the run was rejected with ("none" if none)
    exitCode,        \* the code process.exit was called with (-1: not called)
    dir,             \* the resolved `dir` (line 98)
    lookups,         \* the four lookpath promises
    avail,           \* [npmAvailable, pnpmAvailable, yarnAvailable, gitAvailable]
    repoConfig,      \* the loaded RepositoriesConfig
    template,        \* resolved template (line 155)
    packageManager,  \* resolved package manager (line 156)
    gitProtocol,     \* resolved git protocol (line 157)
    asked,           \* the questions shown so far, in order
    cancelled,       \* the question the user cancelled ("none" if none)
    checked,         \* the conflict check (lines 214-222) has run
    existingPaths,   \* its result (line 214)
    cloneIdx,        \* position in repositoriesToClone (line 339)
    ops,             \* the side-effecting calls issued so far, in order
    errDetail,       \* what the error of a failed step carries
    children,        \* the subprocesses init has started that have not closed
    pkgJson,         \* the manifest patch on its own (lines 237-264)
    projectJson,     \* the descriptor patch on its own (lines 290-324)
    gitignore,       \* the .gitignore merge on its own (lines 270-274)
    childProcess,    \* one call of cmd on its own (lines 77-91)
    poll,            \* one call of getTestResults of the cloud-test runner
    runner,          \* one run of the cloud-test runner
    links,           \* one run of a link script (link-skills, link-claude-code-staffs)
    packages         \* one run of link-rbxts-packages

inputs == <<argv, initMode, lookpathResult, repoFile, fs0>>
\* the state of one run of init
run == <<argv, initMode, lookpathResult, repoFile, fs0, fs, pc, err, exitCode,
         dir, lookups, avail, repoConfig, template, packageManager,
         gitProtocol, asked, cancelled, checked, existingPaths, cloneIdx, ops,
         errDetail, children>>
\* the functions of init studied on their own
units == <<pkgJson, projectJson, gitignore, childProcess>>
\* the scripts the package template ships, each studied on its own
scripts == <<poll, runner, links, packages>>
vars == <<run, units, scripts>>
\* what no step of a run of init changes
fixed == <<inputs, units, scripts>>

(***************************************************************************)
(* Bounds of the model.                                                    *)
(***************************************************************************)
\* longest --compilerVersion value tried
MaxVerLen == 6
\* most entries the destination directory holds when the run starts
MaxEntries == 2
\* most repositories in repositories.json
MaxRepos == 2
\* most components of a repository URL
MaxUrlParts == 6
\* most children of the node the descriptor patch renames a child of
MaxNodeKeys == 3
\* most pieces of the .gitignore the template ships
MaxGitignoreLen == 4
\* how often the .gitignore merge is run on its own result
MaxMerges == 2
\* most characters a child process writes
MaxChunks == 3
\* largest maxRetries getTestResults is called with
MaxRetries == 3
\* most tests that pass, and most that fail, in a cloud test run
MaxTests == 2

(***************************************************************************)
(* Values.                                                                 *)
(***************************************************************************)
UNDEF == "undefined"
None == <<>>
Some(x) == <<x>>
Range(s) == {s[i] : i \in DOMAIN s}
Count(s, x) == Cardinality({i \in DOMAIN s : s[i] = x})

\* enum InitMode
InitModes == {"none", "game", "package"}
Templates == {"game", "package"}
\* enum PackageManager, in declaration order
PackageManagers == <<"npm", "yarn", "pnpm">>
\* enum GitProtocol
GitProtocols == {"https", "ssh"}
\* the tools probed, in the order of the array at line 124
Tools == <<"npm", "pnpm", "yarn", "git">>

\* packageManagerCommands[pm].build
BuildCommand(pm) ==
    CASE pm = "npm" -> "npm run build"
      [] pm = "yarn" -> "yarn run build"
      [] pm = "pnpm" -> "pnpm run build"

\* installCmd of the install step
InstallCommand(pm) ==
    IF pm = "npm" THEN "npm install --silent"
    ELSE IF pm = "yarn" THEN "yarn install --silent"
    ELSE "pnpm install --silent"

(***************************************************************************)
(* --compilerVersion: the check of the builder.                            *)
(***************************************************************************)
Chars == {"1", ".", "a"}
IsDigit(c) == c \in {"0", "1", "2", "3", "4", "5", "6", "7", "8", "9"}

\* One step of the automaton of /^\d+\.\d+\.\d+$/ : states 0..5, the odd ones
\* inside a run of digits, 5 accepting, 6 dead.
RegexStep(st, c) ==
    CASE st \in {0, 1} /\ IsDigit(c) -> 1
      [] st = 1 /\ c = "." -> 2
      [] st \in {2, 3} /\ IsDigit(c) -> 3
      [] st = 3 /\ c = "." -> 4
      [] st \in {4, 5} /\ IsDigit(c) -> 5
      [] OTHER -> 6

RECURSIVE RegexRun(_, _, _)
RegexRun(s, i, st) ==
    IF i > Len(s) THEN st ELSE RegexRun(s, i + 1, RegexStep(st, s[i]))

\* the pattern without its anchors: some substring matches
VersionRegexTestUnanchored(s) ==
    \E i \in 1..Len(s) : \E j \in i..Len(s) : RegexRun(SubSeq(s, i, j), 1, 0) = 5

\* /^\d+\.\d+\.\d+$/.test(s), line 382
VersionRegexTest(s) == RegexRun(s, 1, 0) = 5

\* the .check callback: TRUE when it returns true, FALSE when it throws
CompilerVersionCheck(a) ==
    ~(a.compilerVersion # None /\ ~VersionRegexTest(a.compilerVersion[1]))

(***************************************************************************)
(* Paths: sequences of components.                                         *)
(***************************************************************************)
\* process.cwd()
InvocationDir == <<"work">>
\* the directory name given with --dir or typed at the question
Dir == <<"proj">>

\* path.resolve(dir), dir relative
Resolve(d) == InvocationDir \o d
\* path.join(cwd, name)
Join(p, name) == p \o <<name>>

CommonPrefixLen(a, b) ==
    LET n == IF Len(a) < Len(b) THEN Len(a) ELSE Len(b)
        same == {k \in 0..n : \A i \in 1..k : a[i] = b[i]}
    IN  CHOOSE k \in same : \A m \in same : m <= k

\* path.relative(from, to)
Relative(from, to) ==
    LET k == CommonPrefixLen(from, to)
    IN  [i \in 1..(Len(from) - k) |-> ".."] \o SubSeq(to, k + 1, Len(to))

(***************************************************************************)
(* The destination directory.                                              *)
(***************************************************************************)
\* the four always-checked names (lines 200-205), in Object.values order
FixedNames == <<"package.json", "package-lock.json", "tsconfig.json", ".gitignore">>

\* fs.readdir(templateDir): the top-level entries of the template.  The
\* package template ships a Rojo descriptor (lines 299-306).
TemplateEntries(t) ==
    IF t = "package"
    THEN <<".gitignore", "default.project.json", "package.json", "src", "tsconfig.json">>
    ELSE <<".gitignore", "package.json", "src", "tsconfig.json">>

Names == Range(FixedNames) \cup Range(TemplateEntries("game"))
             \cup Range(TemplateEntries("package"))

\* what a name of the destination is
Kinds == {"absent", "file", "emptyDir", "fullDir",
          "linkFile", "linkEmptyDir", "linkFullDir", "linkDangling"}
Links == {"linkFile", "linkEmptyDir", "linkFullDir", "linkDangling"}

\* fs.pathExists: fs.access, which follows links
PathExists(k) == k \notin {"absent", "linkDangling"}
\* (await fs.stat(p)).isFile(): stat follows links
StatIsFile(k) == k \in {"file", "linkFile"}
\* (await fs.stat(p)).isSymbolicLink(): never true of a stat result
StatIsSymbolicLink(k) == FALSE
\* (await fs.readdir(p)).length > 0
ReaddirNonEmpty(k) == k \in {"fullDir", "linkFullDir"}

\* the condition of lines 216-218 with the file test dropped
IsConflictNoFile(k) ==
    PathExists(k) /\ (StatIsSymbolicLink(k) \/ ReaddirNonEmpty(k))

\* lines 216-218: the path is pushed to existingPaths
IsConflict(k) ==
    PathExists(k) /\ (StatIsFile(k) \/ StatIsSymbolicLink(k) \/ ReaddirNonEmpty(k))

\* lines 200-212: pathValues, as names under cwd
PathValues(t) == FixedNames \o TemplateEntries(t)

\* lines 214-222
RECURSIVE ExistingPaths(_, _, _)
ExistingPaths(names, entries, cwd) ==
    IF names = <<>> THEN <<>>
    ELSE (IF IsConflict(entries[Head(names)])
          THEN <<Relative(InvocationDir, Join(cwd, Head(names)))>>
          ELSE <<>>) \o ExistingPaths(Tail(names), entries, cwd)

\* line 224
ConflictsFound(paths) == Len(paths) > 0

(***************************************************************************)
(* Tool probe, repositories.json, questions.                               *)
(***************************************************************************)
\* line 125 with every settled lookup counted as available
SettledAlwaysAvailable(r) == TRUE

\* line 125: v.status === "fulfilled" ? v.value !== undefined : true
SettledAvailable(r) == IF r = "rejected" THEN TRUE ELSE r = "found"

\* lines 134-140
PackageManagerExistance == [m \in Range(PackageManagers) |-> avail[m]]
PackageManagerCount ==
    Cardinality({m \in Range(PackageManagers) : PackageManagerExistance[m]})

\* a load that falls back to a built-in list when the file cannot be read
LoadedConfigWithFallback(f) ==
    CASE f.state = "ok" -> [defined |-> TRUE, repositories |-> Some(f.repositories)]
      [] f.state = "noRepositories" -> [defined |-> TRUE, repositories |-> None]
      [] OTHER -> [defined |-> TRUE,
                   repositories |-> Some(<<[name |-> "builtin", https |-> "https://host/builtin.git",
                                            ssh |-> "git@host:builtin.git",
                                            destination |-> <<"builtin">>,
                                            templates |-> <<>>]>>)]
\* lines 145-151: what repoConfig is after the load
LoadedConfig(f) ==
    CASE f.state = "ok" -> [defined |-> TRUE, repositories |-> Some(f.repositories)]
      [] f.state = "noRepositories" -> [defined |-> TRUE, repositories |-> None]
      [] OTHER -> [defined |-> FALSE, repositories |-> None]

\* line 152
HasRepositories ==
    /\ repoConfig.defined
    /\ repoConfig.repositories # None
    /\ Len(repoConfig.repositories[1]) > 0

\* line 165
TemplateQuestionType == initMode = "none"

\* line 176 without the argv.yes test
PackageManagerQuestionTypeIgnoringYes ==
    argv.packageManager = UNDEF /\ PackageManagerCount > 1

\* line 176
PackageManagerQuestionType ==
    argv.packageManager = UNDEF /\ PackageManagerCount > 1 /\ argv.yes = UNDEF

\* line 187 without the hasRepositories test
GitProtocolQuestionTypeIgnoringRepositories ==
    argv.gitProtocol = UNDEF /\ argv.yes = UNDEF

\* line 187
GitProtocolQuestionType ==
    argv.gitProtocol = UNDEF /\ HasRepositories /\ argv.yes = UNDEF

\* lines 179-184: the choices of the package-manager question
PackageManagerChoices == {m \in Range(PackageManagers) : PackageManagerExistance[m]}

\* a cancelled question that lets the run go on
OnCancelContinue(next) == [pc |-> next, exitCode |-> -1]

\* onCancel: () => process.exit(1)  (lines 106, 197)
OnCancel(next) == [pc |-> "exited", exitCode |-> 1]

\* PackageManager.NPM at line 156
DefaultPackageManager == "npm"

\* a filter that keeps every entry
AppliesToAny(repo, t) == TRUE
\* lines 328-335
AppliesTo(repo, t) ==
    \/ repo.templates = None
    \/ Len(repo.templates[1]) = 0
    \/ t \in Range(repo.templates[1])

RECURSIVE Filter(_, _)
Filter(repos, t) ==
    IF repos = <<>> THEN <<>>
    ELSE (IF AppliesTo(Head(repos), t) THEN <<Head(repos)>> ELSE <<>>)
             \o Filter(Tail(repos), t)

RepositoriesToClone ==
    IF repoConfig.defined /\ repoConfig.repositories # None
    THEN Filter(repoConfig.repositories[1], template)
    ELSE <<>>

(***************************************************************************)
(* Initial states: the command lines and environments tried.               *)
(***************************************************************************)
Strings(n) == UNION {[1..k -> Chars] : k \in 0..n}

ArgvDefault ==
    [compilerVersion |-> None, dir |-> Some(Dir), yes |-> UNDEF,
     packageManager |-> UNDEF, skipBuild |-> UNDEF, gitProtocol |-> UNDEF]

AllFound == [t \in Range(Tools) |-> "found"]
OnlyNpm == [t \in Range(Tools) |-> IF t \in {"npm", "git"} THEN "found" ELSE "notfound"]
LookupOutcomes == {"found", "notfound", "rejected"}

NoRepoFile == [state |-> "missing", repositories |-> <<>>]
\* the entries repositories.json can hold, by position: RepositoryConfig
RepoPool ==
    << [name |-> "alpha", https |-> "https://host/alpha.git",
        ssh |-> "git@host:alpha.git", destination |-> <<"libs", "alpha">>],
       [name |-> "beta", https |-> "https://host/beta.git",
        ssh |-> "git@host:beta.git", destination |-> <<"beta">>],
       [name |-> "gamma", https |-> "https://host/gamma.git",
        ssh |-> "git@host:gamma.git", destination |-> <<"libs", "gamma">>] >>
\* the values of RepositoryConfig.templates
TemplateLists == {None, Some(<<>>), Some(<<"game">>), Some(<<"package">>)}
Repository(i, t) ==
    [name |-> RepoPool[i].name, https |-> RepoPool[i].https, ssh |-> RepoPool[i].ssh,
     destination |-> RepoPool[i].destination, templates |-> t]
Repos == {Repository(i, t) : i \in 1..MaxRepos, t \in TemplateLists}
RepoLists ==
    UNION {{[i \in 1..k |-> Repository(i, f[i])] : f \in [1..k -> TemplateLists]} :
              k \in 0..MaxRepos}
RepoFiles ==
    {[state |-> s, repositories |-> <<>>] : s \in {"missing", "malformed", "noRepositories"}}
    \cup {[state |-> "ok", repositories |-> l] : l \in RepoLists}
\* the files the questions tell apart: none, unreadable, empty, one entry
QuestionRepoFiles == {f \in RepoFiles : Len(f.repositories) <= 1}

NoEntries == [n \in Names |-> "absent"]
Populated(S) ==
    {[n \in Names |-> IF n \in S THEN f[n] ELSE "absent"] : f \in [S -> Kinds \ {"absent"}]}
EntriesUpTo(k) ==
    UNION {Populated(S) : S \in {T \in SUBSET Names : Cardinality(T) <= k}}
\* made: the paths under the destination that the steps after the check have
\* written, none when the run starts
Destinations ==
    {[cwdKind |-> c, entries |-> NoEntries, made |-> {}] : c \in {"absent", "file"}}
    \cup {[cwdKind |-> "dir", entries |-> e, made |-> {}] : e \in EntriesUpTo(MaxEntries)}
AbsentDestination == [cwdKind |-> "absent", entries |-> NoEntries, made |-> {}]

\* every --compilerVersion value, no --dir
VersionScenario ==
    /\ argv \in {[ArgvDefault EXCEPT !.compilerVersion = v, !.dir = None] :
                    v \in {None} \cup {Some(s) : s \in Strings(MaxVerLen)}}
    /\ initMode = "none"
    /\ lookpathResult = AllFound
    /\ repoFile = NoRepoFile
    /\ fs0 = AbsentDestination

\* every destination
DestinationScenario ==
    /\ argv = ArgvDefault
    /\ initMode \in InitModes
    /\ lookpathResult = OnlyNpm
    /\ repoFile = NoRepoFile
    /\ fs0 \in Destinations

\* every outcome of the four lookups
ProbeScenario ==
    /\ argv \in {[ArgvDefault EXCEPT !.packageManager = m, !.yes = y] :
                    m \in {UNDEF} \cup Range(PackageManagers), y \in {UNDEF, "true"}}
    /\ initMode = "game"
    /\ lookpathResult \in [Range(Tools) -> LookupOutcomes]
    /\ repoFile = NoRepoFile
    /\ fs0 = AbsentDestination

\* every way the questions can be asked or skipped
PromptScenario ==
    /\ argv \in {[ArgvDefault EXCEPT !.dir = d, !.yes = y, !.gitProtocol = g] :
                    d \in {None, Some(Dir)}, y \in {UNDEF, "true"},
                    g \in {UNDEF} \cup GitProtocols}
    /\ initMode \in InitModes
    /\ lookpathResult \in {AllFound, OnlyNpm}
    /\ repoFile \in QuestionRepoFiles
    /\ fs0 = AbsentDestination

\* every repositories.json, with every protocol, with and without the build
CloneScenario ==
    /\ argv \in {[ArgvDefault EXCEPT !.gitProtocol = g, !.skipBuild = b] :
                    g \in {UNDEF} \cup GitProtocols, b \in {UNDEF, "true"}}
    /\ initMode \in Templates
    /\ lookpathResult = OnlyNpm
    /\ repoFile \in RepoFiles
    /\ fs0 = AbsentDestination

\* an error that carries nothing the model looks at
NoDetail == [class |-> "none"]
\* the functions studied on their own are not running
Idle == [state |-> "idle"]
NoUnits ==
    /\ pkgJson = Idle
    /\ projectJson = Idle
    /\ gitignore = Idle
    /\ childProcess = Idle
NoScripts ==
    /\ poll = Idle
    /\ runner = Idle
    /\ links = Idle
    /\ packages = Idle

Init ==
    /\ \/ VersionScenario
       \/ DestinationScenario
       \/ ProbeScenario
       \/ PromptScenario
       \/ CloneScenario
    /\ fs = fs0
    /\ pc = "start"
    /\ err = "none"
    /\ exitCode = -1
    /\ dir = None
    /\ lookups = [t \in Range(Tools) |-> "idle"]
    /\ avail = [t \in Range(Tools) |-> FALSE]
    /\ repoConfig = [defined |-> FALSE, repositories |-> None]
    /\ template = initMode
    /\ packageManager = UNDEF
    /\ gitProtocol = UNDEF
    /\ asked = <<>>
    /\ cancelled = "none"
    /\ checked = FALSE
    /\ existingPaths = <<>>
    /\ cloneIdx = 0
    /\ ops = <<>>
    /\ errDetail = NoDetail
    /\ children = {}
    /\ NoUnits
    /\ NoScripts

(***************************************************************************)
(* The run.                                                                *)
(***************************************************************************)
Op(o, a) == [op |-> o, arg |-> a]
FailWith(e, d) == pc' = "failed" /\ err' = e /\ errDetail' = d
Fail(e) == FailWith(e, NoDetail)

\* builder: the .check callback passes and yargs calls the handler
BuilderAccepts ==
    /\ pc = "start"
    /\ CompilerVersionCheck(argv)
    /\ pc' = "promptDir"
    /\ UNCHANGED <<fixed, children, fs, err, errDetail, exitCode, dir, lookups, avail, repoConfig,
                   template, packageManager, gitProtocol, asked, cancelled,
                   checked, existingPaths, cloneIdx, ops>>

\* builder: the .check callback throws (lines 382-386)
BuilderRejects ==
    /\ pc = "start"
    /\ ~CompilerVersionCheck(argv)
    /\ Fail("validation")
    /\ UNCHANGED <<fixed, children, fs, exitCode, dir, lookups, avail, repoConfig,
                   template, packageManager, gitProtocol, asked, cancelled,
                   checked, existingPaths, cloneIdx, ops>>

\* lines 98-107, --dir given: no question
DirGiven ==
    /\ pc = "promptDir"
    /\ argv.dir # None
    /\ dir' = argv.dir
    /\ pc' = "ensureDir"
    /\ UNCHANGED <<fixed, children, fs, err, errDetail, exitCode, lookups, avail, repoConfig,
                   template, packageManager, gitProtocol, asked, cancelled,
                   checked, existingPaths, cloneIdx, ops>>

\* lines 98-107: the question is shown and answered
DirAnswered ==
    /\ pc = "promptDir"
    /\ argv.dir = None
    /\ asked' = Append(asked, "dir")
    /\ dir' = Some(Dir)
    /\ pc' = "ensureDir"
    /\ UNCHANGED <<fixed, children, fs, err, errDetail, exitCode, lookups, avail, repoConfig,
                   template, packageManager, gitProtocol, cancelled,
                   checked, existingPaths, cloneIdx, ops>>

\* lines 98-107: the question is shown and cancelled
DirCancelled ==
    /\ pc = "promptDir"
    /\ argv.dir = None
    /\ asked' = Append(asked, "dir")
    /\ cancelled' = "dir"
    /\ pc' = OnCancel("ensureDir").pc
    /\ exitCode' = OnCancel("ensureDir").exitCode
    /\ UNCHANGED <<fixed, children, fs, err, errDetail, dir, lookups, avail, repoConfig,
                   template, packageManager, gitProtocol,
                   checked, existingPaths, cloneIdx, ops>>

\* lines 109-116, the destination is (or becomes) a directory
EnsureDirOk ==
    /\ pc = "ensureDir"
    /\ fs.cwdKind # "file"
    /\ IF fs.cwdKind = "absent"
       THEN /\ fs' = [fs EXCEPT !.cwdKind = "dir"]
            /\ ops' = Append(ops, Op("ensureDir", "cwd"))
       ELSE UNCHANGED <<fs, ops>>
    /\ pc' = "probe"
    /\ UNCHANGED <<fixed, children, err, errDetail, exitCode, dir, lookups, avail, repoConfig,
                   template, packageManager, gitProtocol, asked, cancelled,
                   checked, existingPaths, cloneIdx>>

\* lines 114-116
EnsureDirNotDirectory ==
    /\ pc = "ensureDir"
    /\ fs.cwdKind = "file"
    /\ Fail("notDirectory")
    /\ UNCHANGED <<fixed, children, fs, exitCode, dir, lookups, avail, repoConfig,
                   template, packageManager, gitProtocol, asked, cancelled,
                   checked, existingPaths, cloneIdx, ops>>

\* line 124: the four lookups are issued together
StartLookups ==
    /\ pc = "probe"
    /\ lookups' = [t \in Range(Tools) |-> "pending"]
    /\ pc' = "probing"
    /\ UNCHANGED <<fixed, children, fs, err, errDetail, exitCode, dir, avail, repoConfig,
                   template, packageManager, gitProtocol, asked, cancelled,
                   checked, existingPaths, cloneIdx, ops>>

\* one lookup settles
LookupSettles(t) ==
    /\ pc = "probing"
    /\ lookups[t] = "pending"
    /\ lookups' = [lookups EXCEPT ![t] = lookpathResult[t]]
    /\ UNCHANGED <<fixed, children, fs, pc, err, errDetail, exitCode, dir, avail, repoConfig,
                   template, packageManager, gitProtocol, asked, cancelled,
                   checked, existingPaths, cloneIdx, ops>>

\* a join that is over at the first rejection (Promise.all)
FailFast ==
    \/ \A t \in Range(Tools) : lookups[t] \notin {"idle", "pending"}
    \/ \E t \in Range(Tools) : lookups[t] = "rejected"
\* Promise.allSettled, line 124: every lookup has fulfilled or rejected
AllSettled == \A t \in Range(Tools) : lookups[t] \notin {"idle", "pending"}

\* lines 123-140: allSettled resolves, git is there
ProbeDone ==
    /\ pc = "probing"
    /\ AllSettled
    /\ avail' = [t \in Range(Tools) |-> SettledAvailable(lookups[t])]
    /\ avail'["git"]
    /\ pc' = "loadConfig"
    /\ UNCHANGED <<fixed, children, fs, err, errDetail, exitCode, dir, lookups, repoConfig,
                   template, packageManager, gitProtocol, asked, cancelled,
                   checked, existingPaths, cloneIdx, ops>>

\* lines 128-132
ProbeGitMissing ==
    /\ pc = "probing"
    /\ AllSettled
    /\ avail' = [t \in Range(Tools) |-> SettledAvailable(lookups[t])]
    /\ ~avail'["git"]
    /\ Fail("gitRequired")
    /\ UNCHANGED <<fixed, children, fs, exitCode, dir, lookups, repoConfig,
                   template, packageManager, gitProtocol, asked, cancelled,
                   checked, existingPaths, cloneIdx, ops>>

\* lines 142-152
LoadRepoConfig ==
    /\ pc = "loadConfig"
    /\ repoConfig' = LoadedConfig(repoFile)
    /\ pc' = "askTemplate"
    /\ UNCHANGED <<fixed, children, fs, err, errDetail, exitCode, dir, lookups, avail,
                   template, packageManager, gitProtocol, asked, cancelled,
                   checked, existingPaths, cloneIdx, ops>>

\* lines 164-173, question skipped: template = initMode
TemplateSkipped ==
    /\ pc = "askTemplate"
    /\ ~TemplateQuestionType
    /\ template' = initMode
    /\ pc' = "askPackageManager"
    /\ UNCHANGED <<fixed, children, fs, err, errDetail, exitCode, dir, lookups, avail, repoConfig,
                   packageManager, gitProtocol, asked, cancelled,
                   checked, existingPaths, cloneIdx, ops>>

TemplateAnswered ==
    /\ pc = "askTemplate"
    /\ TemplateQuestionType
    /\ asked' = Append(asked, "template")
    /\ \E t \in Templates : template' = t
    /\ pc' = "askPackageManager"
    /\ UNCHANGED <<fixed, children, fs, err, errDetail, exitCode, dir, lookups, avail, repoConfig,
                   packageManager, gitProtocol, cancelled,
                   checked, existingPaths, cloneIdx, ops>>

TemplateCancelled ==
    /\ pc = "askTemplate"
    /\ TemplateQuestionType
    /\ asked' = Append(asked, "template")
    /\ cancelled' = "template"
    /\ pc' = OnCancel("askPackageManager").pc
    /\ exitCode' = OnCancel("askPackageManager").exitCode
    /\ UNCHANGED <<fixed, children, fs, err, errDetail, dir, lookups, avail, repoConfig,
                   template, packageManager, gitProtocol,
                   checked, existingPaths, cloneIdx, ops>>

\* lines 174-185, question skipped: argv.packageManager ?? PackageManager.NPM
PackageManagerSkipped ==
    /\ pc = "askPackageManager"
    /\ ~PackageManagerQuestionType
    /\ packageManager' = IF argv.packageManager # UNDEF
                         THEN argv.packageManager ELSE DefaultPackageManager
    /\ pc' = "askGitProtocol"
    /\ UNCHANGED <<fixed, children, fs, err, errDetail, exitCode, dir, lookups, avail, repoConfig,
                   template, gitProtocol, asked, cancelled,
                   checked, existingPaths, cloneIdx, ops>>

PackageManagerAnswered ==
    /\ pc = "askPackageManager"
    /\ PackageManagerQuestionType
    /\ asked' = Append(asked, "packageManager")
    /\ \E m \in PackageManagerChoices : packageManager' = m
    /\ pc' = "askGitProtocol"
    /\ UNCHANGED <<fixed, children, fs, err, errDetail, exitCode, dir, lookups, avail, repoConfig,
                   template, gitProtocol, cancelled,
                   checked, existingPaths, cloneIdx, ops>>

PackageManagerCancelled ==
    /\ pc = "askPackageManager"
    /\ PackageManagerQuestionType
    /\ asked' = Append(asked, "packageManager")
    /\ cancelled' = "packageManager"
    /\ pc' = OnCancel("askGitProtocol").pc
    /\ exitCode' = OnCancel("askGitProtocol").exitCode
    /\ UNCHANGED <<fixed, children, fs, err, errDetail, dir, lookups, avail, repoConfig,
                   template, packageManager, gitProtocol,
                   checked, existingPaths, cloneIdx, ops>>

\* lines 186-195, question skipped: argv.gitProtocol ?? GitProtocol.SSH
GitProtocolSkipped ==
    /\ pc = "askGitProtocol"
    /\ ~GitProtocolQuestionType
    /\ gitProtocol' = IF argv.gitProtocol # UNDEF THEN argv.gitProtocol ELSE "ssh"
    /\ pc' = "check"
    /\ UNCHANGED <<fixed, children, fs, err, errDetail, exitCode, dir, lookups, avail, repoConfig,
                   template, packageManager, asked, cancelled,
                   checked, existingPaths, cloneIdx, ops>>

GitProtocolAnswered ==
    /\ pc = "askGitProtocol"
    /\ GitProtocolQuestionType
    /\ asked' = Append(asked, "gitProtocol")
    /\ \E g \in GitProtocols : gitProtocol' = g
    /\ pc' = "check"
    /\ UNCHANGED <<fixed, children, fs, err, errDetail, exitCode, dir, lookups, avail, repoConfig,
                   template, packageManager, cancelled,
                   checked, existingPaths, cloneIdx, ops>>

GitProtocolCancelled ==
    /\ pc = "askGitProtocol"
    /\ GitProtocolQuestionType
    /\ asked' = Append(asked, "gitProtocol")
    /\ cancelled' = "gitProtocol"
    /\ pc' = OnCancel("check").pc
    /\ exitCode' = OnCancel("check").exitCode
    /\ UNCHANGED <<fixed, children, fs, err, errDetail, dir, lookups, avail, repoConfig,
                   template, packageManager, gitProtocol,
                   checked, existingPaths, cloneIdx, ops>>

\* lines 200-227: no conflict found
CheckPasses ==
    /\ pc = "check"
    /\ checked' = TRUE
    /\ existingPaths' = ExistingPaths(PathValues(template), fs.entries, Resolve(dir[1]))
    /\ ~ConflictsFound(existingPaths')
    /\ pc' = "copy"
    /\ UNCHANGED <<fixed, children, fs, err, errDetail, exitCode, dir, lookups, avail, repoConfig,
                   template, packageManager, gitProtocol, asked, cancelled,
                   cloneIdx, ops>>

\* lines 224-227
CheckConflicts ==
    /\ pc = "check"
    /\ checked' = TRUE
    /\ existingPaths' = ExistingPaths(PathValues(template), fs.entries, Resolve(dir[1]))
    /\ ConflictsFound(existingPaths')
    /\ Fail("conflict")
    /\ UNCHANGED <<fixed, children, fs, exitCode, dir, lookups, avail, repoConfig,
                   template, packageManager, gitProtocol, asked, cancelled,
                   cloneIdx, ops>>

\* what fs.copy leaves at a top-level name of the template
Copied(n) == IF n = "src" THEN "fullDir" ELSE "file"

\* benchmark(label, fn): the label is printed, then fn runs
Benchmark(label) == Op("benchmark", label)

\* the steps of the body of init in the order of its statements (lines 231-363)
StepOrder == <<"copy", "updatePackageJson", "gitInit", "install",
               "updateProject", "clone", "build", "done">>
Successor(order, p) == order[(CHOOSE i \in DOMAIN order : order[i] = p) + 1]
\* the install step moved before the git step
StepAfterInstallFirst(p) ==
    Successor(<<"copy", "updatePackageJson", "install", "gitInit",
                "updateProject", "clone", "build", "done">>, p)
\* the statement that follows step p
StepAfter(p) == Successor(StepOrder, p)

\* !argv.skipBuild, line 361
BuildRequested == argv.skipBuild # "true"

\* the steps write paths under the destination
Made(f, paths) == [f EXCEPT !.made = @ \cup paths]
\* a failed step that removes what the earlier steps wrote
AfterFailureCleaned(f) == [f EXCEPT !.made = {}]
\* the destination after a step has thrown: init has no catch or finally
\* around its steps, so it is left as it is
AfterFailure(f) == f

\* the InitError of cmd, lines 84-88
CmdError(cmdStr) == [class |-> "InitError", command |-> cmdStr]
\* the error of the "error" event, line 89
SpawnError(cmdStr) == [class |-> "Error", spawn |-> cmdStr]

\* lines 232-234
CopyTemplate ==
    /\ pc = "copy"
    /\ ops' = ops \o <<Benchmark("Copying template files.."), Op("copy", template)>>
    /\ fs' = [fs EXCEPT !.entries =
                 [n \in Names |-> IF n \in Range(TemplateEntries(template))
                                  THEN Copied(n) ELSE fs.entries[n]]]
    /\ pc' = StepAfter("copy")
    /\ UNCHANGED <<fixed, children, err, errDetail, exitCode, dir, lookups, avail,
                   repoConfig, template, packageManager, gitProtocol, asked,
                   cancelled, checked, existingPaths, cloneIdx>>

\* fs.copy rejects
CopyTemplateFails ==
    /\ pc = "copy"
    /\ ops' = ops \o <<Benchmark("Copying template files.."), Op("copy", template)>>
    /\ fs' = AfterFailure(fs)
    /\ Fail("fs")
    /\ UNCHANGED <<fixed, children, exitCode, dir, lookups, avail, repoConfig,
                   template, packageManager, gitProtocol, asked, cancelled,
                   checked, existingPaths, cloneIdx>>

\* lines 237-264
UpdatePackageJson ==
    /\ pc = "updatePackageJson"
    /\ ops' = ops \o <<Benchmark("Updating package.json.."),
                       Op("outputFile", "package.json")>>
    /\ fs' = Made(fs, {<<"package.json">>})
    /\ pc' = StepAfter("updatePackageJson")
    /\ UNCHANGED <<fixed, children, err, errDetail, exitCode, dir, lookups, avail,
                   repoConfig, template, packageManager, gitProtocol, asked,
                   cancelled, checked, existingPaths, cloneIdx>>

\* fs.readJson (line 238) or fs.outputFile (line 263) rejects
UpdatePackageJsonFails ==
    /\ pc = "updatePackageJson"
    /\ \E read \in BOOLEAN :
          ops' = ops \o <<Benchmark("Updating package.json..")>>
                     \o (IF read THEN <<Op("outputFile", "package.json")>> ELSE <<>>)
    /\ fs' = AfterFailure(fs)
    /\ Fail("fs")
    /\ UNCHANGED <<fixed, children, exitCode, dir, lookups, avail, repoConfig,
                   template, packageManager, gitProtocol, asked, cancelled,
                   checked, existingPaths, cloneIdx>>

\* spawn, line 80: the child runs from now on
WithChild(cs, c) == cs \cup {c}
\* a child that is counted as running after its "close" event
StillRunning(cs, c) == cs
\* the "close" event (lines 84-88) or the "error" event (line 89): the child
\* is gone when the promise of cmd settles
Closed(cs, c) == cs \ {c}
\* the positions at which init is suspended in `await cmd(...)`
Awaiting == {"gitInitCmd", "installCmd", "cloneCmd", "buildCmd"}

\* lines 267-268: the label is printed and git init is started
GitInitStart ==
    /\ pc = "gitInit"
    /\ ops' = ops \o <<Benchmark("Initializing Git.."), Op("cmd", "git init")>>
    /\ children' = WithChild(children, Op("cmd", "git init"))
    /\ pc' = "gitInitCmd"
    /\ UNCHANGED <<fixed, fs, err, errDetail, exitCode, dir, lookups, avail,
                   repoConfig, template, packageManager, gitProtocol, asked,
                   cancelled, checked, existingPaths, cloneIdx>>

\* lines 268-275: git init closes with code 0; the missing rules, if any, are
\* appended
GitInit ==
    /\ pc = "gitInitCmd"
    /\ children' = Closed(children, Op("cmd", "git init"))
    /\ \E missing \in BOOLEAN :
          /\ ops' = ops \o (IF missing THEN <<Op("appendFile", ".gitignore")>> ELSE <<>>)
          /\ fs' = Made(fs, {<<".git">>} \cup (IF missing THEN {<<".gitignore">>} ELSE {}))
    /\ pc' = StepAfter("gitInit")
    /\ UNCHANGED <<fixed, err, errDetail, exitCode, dir, lookups, avail,
                   repoConfig, template, packageManager, gitProtocol, asked,
                   cancelled, checked, existingPaths, cloneIdx>>

\* line 268: git init closes with another code (lines 84-88)
GitInitFails ==
    /\ pc = "gitInitCmd"
    /\ children' = Closed(children, Op("cmd", "git init"))
    /\ fs' = AfterFailure(fs)
    /\ FailWith("cmd", CmdError("git init"))
    /\ UNCHANGED <<fixed, exitCode, dir, lookups, avail, repoConfig,
                   template, packageManager, gitProtocol, asked, cancelled,
                   checked, existingPaths, cloneIdx, ops>>

\* line 273: fs.appendFile rejects, after git init has closed with code 0
GitignoreAppendFails ==
    /\ pc = "gitInitCmd"
    /\ children' = Closed(children, Op("cmd", "git init"))
    /\ ops' = Append(ops, Op("appendFile", ".gitignore"))
    /\ fs' = AfterFailure(Made(fs, {<<".git">>}))
    /\ Fail("fs")
    /\ UNCHANGED <<fixed, exitCode, dir, lookups, avail, repoConfig,
                   template, packageManager, gitProtocol, asked, cancelled,
                   checked, existingPaths, cloneIdx>>

\* lines 278-286: the label is printed and the install command is started
InstallStart ==
    /\ pc = "install"
    /\ ops' = ops \o <<Benchmark("Installing dependencies.."),
                       Op("cmd", InstallCommand(packageManager))>>
    /\ children' = WithChild(children, Op("cmd", InstallCommand(packageManager)))
    /\ pc' = "installCmd"
    /\ UNCHANGED <<fixed, fs, err, errDetail, exitCode, dir, lookups, avail,
                   repoConfig, template, packageManager, gitProtocol, asked,
                   cancelled, checked, existingPaths, cloneIdx>>

\* lines 286-287: it closes with code 0
Install ==
    /\ pc = "installCmd"
    /\ children' = Closed(children, Op("cmd", InstallCommand(packageManager)))
    /\ fs' = Made(fs, {<<"node_modules">>})
    /\ pc' = StepAfter("install")
    /\ UNCHANGED <<fixed, err, errDetail, exitCode, dir, lookups, avail,
                   repoConfig, template, packageManager, gitProtocol, asked,
                   cancelled, checked, existingPaths, cloneIdx, ops>>

\* line 286: it closes with another code
InstallFails ==
    /\ pc = "installCmd"
    /\ children' = Closed(children, Op("cmd", InstallCommand(packageManager)))
    /\ fs' = AfterFailure(fs)
    /\ FailWith("cmd", CmdError(InstallCommand(packageManager)))
    /\ UNCHANGED <<fixed, exitCode, dir, lookups, avail, repoConfig,
                   template, packageManager, gitProtocol, asked, cancelled,
                   checked, existingPaths, cloneIdx, ops>>

\* lines 290-324: default.project.json exists
UpdateProject ==
    /\ pc = "updateProject"
    /\ PathExists(fs.entries["default.project.json"])
    /\ ops' = ops \o <<Benchmark("Updating project name.."),
                       Op("outputFile", "default.project.json")>>
    /\ fs' = Made(fs, {<<"default.project.json">>})
    /\ pc' = StepAfter("updateProject")
    /\ cloneIdx' = 1
    /\ UNCHANGED <<fixed, children, err, errDetail, exitCode, dir, lookups, avail,
                   repoConfig, template, packageManager, gitProtocol, asked,
                   cancelled, checked, existingPaths>>

\* fs.readJson (lines 293-294) or fs.outputFile (line 322) rejects
UpdateProjectFails ==
    /\ pc = "updateProject"
    /\ PathExists(fs.entries["default.project.json"])
    /\ \E read \in BOOLEAN :
          ops' = ops \o <<Benchmark("Updating project name..")>>
                     \o (IF read THEN <<Op("outputFile", "default.project.json")>>
                         ELSE <<>>)
    /\ fs' = AfterFailure(fs)
    /\ Fail("fs")
    /\ UNCHANGED <<fixed, children, exitCode, dir, lookups, avail, repoConfig,
                   template, packageManager, gitProtocol, asked, cancelled,
                   checked, existingPaths, cloneIdx>>

\* line 291: it does not
UpdateProjectSkipped ==
    /\ pc = "updateProject"
    /\ ~PathExists(fs.entries["default.project.json"])
    /\ pc' = StepAfter("updateProject")
    /\ cloneIdx' = 1
    /\ UNCHANGED <<fixed, children, fs, err, errDetail, exitCode, dir, lookups, avail,
                   repoConfig, template, packageManager, gitProtocol, asked,
                   cancelled, checked, existingPaths, ops>>

\* path.dirname
Dirname(p) == SubSeq(p, 1, Len(p) - 1)
\* path.join(cwd, repo.destination), line 341
DestPath(repo) == Resolve(dir[1]) \o repo.destination
\* line 340
RepoUrl(repo) == IF gitProtocol = "ssh" THEN repo.ssh ELSE repo.https
\* line 344
EnsureParent(repo) ==
    [op |-> "ensureDir", arg |-> "parent", path |-> Dirname(DestPath(repo))]
\* line 347: git clone ${repoUrl} "${destPath}" --depth 1
CloneCommand(repo) ==
    [op |-> "cmd", arg |-> "git clone", url |-> RepoUrl(repo),
     dest |-> DestPath(repo), depth |-> 1]
\* an error that names no repository
CloneErrorBare(repo, error) == error
\* lines 349-353
CloneError(repo, error) ==
    [class |-> "InitError", repo |-> repo.name, cause |-> error, hint |-> TRUE]
\* line 338: the label is printed once, before the loop
CloningLabel ==
    IF cloneIdx = 1 THEN <<Benchmark("Cloning repositories..")>> ELSE <<>>

\* lines 339-347: the parent directory is made and the clone is started
CloneStart ==
    /\ pc = "clone"
    /\ cloneIdx <= Len(RepositoriesToClone)
    /\ LET repo == RepositoriesToClone[cloneIdx] IN
          /\ ops' = ops \o CloningLabel \o <<EnsureParent(repo), CloneCommand(repo)>>
          /\ fs' = Made(fs, {Dirname(DestPath(repo))})
          /\ children' = WithChild(children, CloneCommand(repo))
    /\ pc' = "cloneCmd"
    /\ UNCHANGED <<fixed, err, errDetail, exitCode, dir, lookups, avail,
                   repoConfig, template, packageManager, gitProtocol, asked,
                   cancelled, checked, existingPaths, cloneIdx>>

\* line 347: the clone closes with code 0, the loop goes on
Clone ==
    /\ pc = "cloneCmd"
    /\ LET repo == RepositoriesToClone[cloneIdx] IN
          /\ children' = Closed(children, CloneCommand(repo))
          /\ fs' = Made(fs, {DestPath(repo)})
    /\ cloneIdx' = cloneIdx + 1
    /\ pc' = "clone"
    /\ UNCHANGED <<fixed, err, errDetail, exitCode, dir, lookups, avail,
                   repoConfig, template, packageManager, gitProtocol, asked,
                   cancelled, checked, existingPaths, ops>>

\* line 344: fs.ensureDir rejects, outside the try of line 346
CloneEnsureDirFails ==
    /\ pc = "clone"
    /\ cloneIdx <= Len(RepositoriesToClone)
    /\ LET repo == RepositoriesToClone[cloneIdx] IN
          ops' = ops \o CloningLabel \o <<EnsureParent(repo)>>
    /\ fs' = AfterFailure(fs)
    /\ Fail("fs")
    /\ UNCHANGED <<fixed, children, exitCode, dir, lookups, avail, repoConfig,
                   template, packageManager, gitProtocol, asked, cancelled,
                   checked, existingPaths, cloneIdx>>

\* lines 348-355: cmd rejects, with its InitError or with the error of spawn
CloneFails ==
    /\ pc = "cloneCmd"
    /\ LET repo == RepositoriesToClone[cloneIdx] IN
          /\ children' = Closed(children, CloneCommand(repo))
          /\ \E cause \in {CmdError("git clone"), SpawnError("git clone")} :
                FailWith("clone", CloneError(repo, cause))
    /\ fs' = AfterFailure(fs)
    /\ UNCHANGED <<fixed, exitCode, dir, lookups, avail, repoConfig,
                   template, packageManager, gitProtocol, asked, cancelled,
                   checked, existingPaths, cloneIdx, ops>>

\* the loop of line 339 ends (or lines 327, 337 skip it)
CloneDone ==
    /\ pc = "clone"
    /\ cloneIdx > Len(RepositoriesToClone)
    /\ pc' = StepAfter("clone")
    /\ UNCHANGED <<fixed, children, fs, err, errDetail, exitCode, dir, lookups, avail,
                   repoConfig, template, packageManager, gitProtocol, asked,
                   cancelled, checked, existingPaths, cloneIdx, ops>>

\* lines 361-362: the label is printed and the build command is started
BuildStart ==
    /\ pc = "build"
    /\ BuildRequested
    /\ ops' = ops \o <<Benchmark("Compiling.."), Op("cmd", BuildCommand(packageManager))>>
    /\ children' = WithChild(children, Op("cmd", BuildCommand(packageManager)))
    /\ pc' = "buildCmd"
    /\ UNCHANGED <<fixed, fs, err, errDetail, exitCode, dir, lookups, avail,
                   repoConfig, template, packageManager, gitProtocol, asked,
                   cancelled, checked, existingPaths, cloneIdx>>

\* line 362: it closes with code 0
Build ==
    /\ pc = "buildCmd"
    /\ children' = Closed(children, Op("cmd", BuildCommand(packageManager)))
    /\ fs' = Made(fs, {<<"out">>})
    /\ pc' = StepAfter("build")
    /\ UNCHANGED <<fixed, err, errDetail, exitCode, dir, lookups, avail,
                   repoConfig, template, packageManager, gitProtocol, asked,
                   cancelled, checked, existingPaths, cloneIdx, ops>>

\* line 362: it closes with another code
BuildFails ==
    /\ pc = "buildCmd"
    /\ children' = Closed(children, Op("cmd", BuildCommand(packageManager)))
    /\ fs' = AfterFailure(fs)
    /\ FailWith("cmd", CmdError(BuildCommand(packageManager)))
    /\ UNCHANGED <<fixed, exitCode, dir, lookups, avail, repoConfig,
                   template, packageManager, gitProtocol, asked, cancelled,
                   checked, existingPaths, cloneIdx, ops>>

\* line 361: --skipBuild
BuildSkipped ==
    /\ pc = "build"
    /\ ~BuildRequested
    /\ pc' = StepAfter("build")
    /\ UNCHANGED <<fixed, children, fs, err, errDetail, exitCode, dir, lookups, avail,
                   repoConfig, template, packageManager, gitProtocol, asked,
                   cancelled, checked, existingPaths, cloneIdx, ops>>

Next ==
    \/ BuilderAccepts \/ BuilderRejects
    \/ DirGiven \/ DirAnswered \/ DirCancelled
    \/ EnsureDirOk \/ EnsureDirNotDirectory
    \/ StartLookups
    \/ \E t \in Range(Tools) : LookupSettles(t)
    \/ ProbeDone \/ ProbeGitMissing
    \/ LoadRepoConfig
    \/ TemplateSkipped \/ TemplateAnswered \/ TemplateCancelled
    \/ PackageManagerSkipped \/ PackageManagerAnswered \/ PackageManagerCancelled
    \/ GitProtocolSkipped \/ GitProtocolAnswered \/ GitProtocolCancelled
    \/ CheckPasses \/ CheckConflicts
    \/ CopyTemplate \/ CopyTemplateFails
    \/ UpdatePackageJson \/ UpdatePackageJsonFails
    \/ GitInitStart \/ GitInit \/ GitInitFails \/ GitignoreAppendFails
    \/ InstallStart \/ Install \/ InstallFails
    \/ UpdateProject \/ UpdateProjectFails \/ UpdateProjectSkipped
    \/ CloneStart \/ Clone \/ CloneEnsureDirFails \/ CloneFails \/ CloneDone
    \/ BuildStart \/ Build \/ BuildFails \/ BuildSkipped

Spec == Init /\ [][Next]_vars

(***************************************************************************)
(* The functions of init on their own.  While one of them is studied the   *)
(* run of init stands still.                                               *)
(***************************************************************************)
NoRun ==
    /\ argv = ArgvDefault
    /\ initMode = "none"
    /\ lookpathResult = AllFound
    /\ repoFile = NoRepoFile
    /\ fs0 = AbsentDestination
    /\ fs = AbsentDestination
    /\ pc = "idle"
    /\ err = "none"
    /\ exitCode = -1
    /\ dir = None
    /\ lookups = [t \in Range(Tools) |-> "idle"]
    /\ avail = [t \in Range(Tools) |-> FALSE]
    /\ repoConfig = [defined |-> FALSE, repositories |-> None]
    /\ template = "none"
    /\ packageManager = UNDEF
    /\ gitProtocol = UNDEF
    /\ asked = <<>>
    /\ cancelled = "none"
    /\ checked = FALSE
    /\ existingPaths = <<>>
    /\ cloneIdx = 0
    /\ ops = <<>>
    /\ errDetail = NoDetail
    /\ children = {}

(***************************************************************************)
(* The manifest patch, lines 237-264.  A package name is the sequence of   *)
(* its parts between "/", a URL the sequence of its components between     *)
(* "/": "https://github.com/a/b" is <<"https:", "", "github.com", "a",     *)
(* "b">>.                                                                  *)
(***************************************************************************)
\* PROJECT_SCOPE (line 9; "@white-dragon-bevy/my_plugin" at line 301)
ProjectScope == "@white-dragon-bevy"
\* the organisation written into the URL, lines 252 and 258
FixedOrg == "white-dragon-bevy"
\* path.basename(cwd), line 241
Basename(p) == IF p = <<>> THEN "" ELSE p[Len(p)]
\* the destination directory names tried
DirNames == {"my_plugin", "bevy_plugin_example", "pay$$", ""}
\* the components a repository URL is made of
UrlParts == {"", "git+https:", "github.com", "name.git"}
Urls == UNION {[1..k -> UrlParts] : k \in 1..MaxUrlParts}

\* the replacement text String.prototype.replace inserts for a replacement
\* string: "$$" stands for one "$"
Substitution(text) == IF text = "pay$$" THEN "pay$" ELSE text

\* the component the first match of /github\.com\/[^/]+\/[^/]+/ starts in, at
\* or after component from (0: no match): the component ends with
\* "github.com" and two non-empty components follow it
MatchFrom(url, from) ==
    LET starts == {i \in from..(Len(url) - 2) :
                     url[i] = "github.com" /\ url[i + 1] # "" /\ url[i + 2] # ""}
    IN  IF starts = {} THEN 0 ELSE CHOOSE i \in starts : \A j \in starts : i <= j

\* url.replace(/github\.com\/[^/]+\/[^/]+/, `github.com/white-dragon-bevy/${dirName}`)
ReplaceFirst(url, dirName) ==
    LET i == MatchFrom(url, 1) IN
    IF i = 0 THEN url
    ELSE [url EXCEPT ![i + 1] = FixedOrg, ![i + 2] = Substitution(dirName)]

\* lines 247-262
PatchRepository(repository, dirName) ==
    IF repository.form \in {"string", "object"} /\ repository.url # <<"">>
    THEN [repository EXCEPT !.url = ReplaceFirst(@, dirName)]
    ELSE repository

\* a name without the scope
PackageNameUnscoped(dirName) == <<dirName>>
\* line 244
PackageName(dirName) == <<ProjectScope, dirName>>

\* lines 238-263: what is written back for the manifest read
PatchManifest(manifest, cwd) ==
    [manifest EXCEPT !.name = PackageName(Basename(cwd)),
                     !.repository = PatchRepository(@, Basename(cwd))]

\* the repository fields tried: none, a string, an object with or without url
Repositories ==
    {[form |-> f, url |-> <<"">>] : f \in {"absent", "objectNoUrl"}}
    \cup {[form |-> f, url |-> u] : f \in {"string", "object"}, u \in Urls}
\* the manifests the template can hold
Manifests ==
    {[name |-> <<ProjectScope, "bevy_plugin_example">>, version |-> "0.1.0",
      scripts |-> "build", repository |-> r] : r \in Repositories}
\* the resolved destinations tried
Cwds == {<<"work", n>> : n \in DirNames \ {""}} \cup {<<>>, <<"work", "sub", "my_plugin">>}

ManifestInit ==
    /\ NoRun
    /\ NoScripts
    /\ \E m \in Manifests, c \in Cwds :
          pkgJson = [cwd |-> c, template |-> m, file |-> m, patched |-> FALSE]
    /\ projectJson = Idle
    /\ gitignore = Idle
    /\ childProcess = Idle

\* lines 237-264
PatchPackageJson ==
    /\ ~pkgJson.patched
    /\ pkgJson' = [pkgJson EXCEPT !.file = PatchManifest(@, pkgJson.cwd),
                                  !.patched = TRUE]
    /\ UNCHANGED <<run, scripts, projectJson, gitignore, childProcess>>

ManifestNext == PatchPackageJson
ManifestSpec == ManifestInit /\ [][ManifestNext]_vars

(***************************************************************************)
(* The descriptor patch, lines 290-324.  The node                          *)
(* tree.ReplicatedStorage.rbxts_include.node_modules["@white-dragon-bevy"] *)
(* is the sequence of its <<key, value>> pairs in the order Object.keys    *)
(* lists them; None when the path does not lead to an object.              *)
(***************************************************************************)
\* the keys the node can have
NodeKeys == {"$className", "$path", "bevy_plugin_example", "my_plugin"}
\* the sub-tree the template put under a key
SubTree(k) == [path |-> k]
\* key.startsWith("$")
StartsWithDollar(k) == k \in {"$className", "$path"}
Injective(f) == \A i, j \in DOMAIN f : f[i] = f[j] => i = j
Nodes ==
    {[i \in DOMAIN ks |-> <<ks[i], SubTree(ks[i])>>] :
        ks \in {f \in UNION {[1..n -> NodeKeys] : n \in 0..MaxNodeKeys} : Injective(f)}}
KeysOf(node) == [i \in DOMAIN node |-> node[i][1]]
HasKey(node, k) == \E i \in DOMAIN node : node[i][1] = k
Get(node, k) == node[CHOOSE i \in DOMAIN node : node[i][1] = k][2]
RECURSIVE Without(_, _)
\* delete node[k]
Without(node, k) ==
    IF node = <<>> THEN <<>>
    ELSE (IF Head(node)[1] = k THEN <<>> ELSE <<Head(node)>>) \o Without(Tail(node), k)
\* node[k] = v: an existing key keeps its place, a new one comes last
With(node, k, v) ==
    IF HasKey(node, k)
    THEN [i \in DOMAIN node |-> IF node[i][1] = k THEN <<k, v>> ELSE node[i]]
    ELSE Append(node, <<k, v>>)
RECURSIVE FilterKeys(_)
\* Object.keys(node).filter(key => !key.startsWith("$")), line 311
FilterKeys(ks) ==
    IF ks = <<>> THEN <<>>
    ELSE (IF StartsWithDollar(Head(ks)) THEN <<>> ELSE <<Head(ks)>>) \o FilterKeys(Tail(ks))
\* pkgJson.name.split("/").pop(), line 302
PackageNameWithoutScope(name) == name[Len(name)]

\* lines 308-319
RenameChild(node, packageNameWithoutScope) ==
    LET oldKeys == FilterKeys(KeysOf(node)) IN
    IF packageNameWithoutScope # "" /\ oldKeys # <<>>
    THEN Without(With(node, packageNameWithoutScope, Get(node, oldKeys[1])), oldKeys[1])
    ELSE node

\* lines 293-322: what is written back for the descriptor read
PatchDescriptor(descriptor, name, t) ==
    [descriptor EXCEPT
        !.name = name,
        !.node = IF t = "package" /\ @ # None
                 THEN Some(RenameChild(@[1], PackageNameWithoutScope(name)))
                 ELSE @]

\* the descriptors the template can hold
Descriptors ==
    {[name |-> <<"bevy_plugin_example">>, node |-> n] :
        n \in {None} \cup {Some(x) : x \in Nodes}}

DescriptorInit ==
    /\ NoRun
    /\ NoScripts
    /\ \E d \in Descriptors, n \in DirNames, t \in Templates :
          projectJson = [template |-> t, pkgName |-> PackageName(n),
                         original |-> d, file |-> d, patched |-> FALSE]
    /\ pkgJson = Idle
    /\ gitignore = Idle
    /\ childProcess = Idle

\* lines 292-323
PatchProjectJson ==
    /\ ~projectJson.patched
    /\ projectJson' =
           [projectJson EXCEPT
               !.file = PatchDescriptor(@, projectJson.pkgName, projectJson.template),
               !.patched = TRUE]
    /\ UNCHANGED <<run, scripts, pkgJson, gitignore, childProcess>>

DescriptorNext == PatchProjectJson
DescriptorSpec == DescriptorInit /\ [][DescriptorNext]_vars

(***************************************************************************)
(* The .gitignore merge, lines 270-274.  The content of the file is a      *)
(* sequence of pieces: a required rule, a line break, or other text.  No   *)
(* rule is part of another and none can arise across two pieces, so a rule *)
(* is a substring of the content exactly when it is one of its pieces.     *)
(***************************************************************************)
\* GIT_IGNORE, line 93
GIT_IGNORE == <<"/node_modules", "/out", "/include", "*.tsbuildinfo">>
\* the pieces of a .gitignore: the rules, "\n", and text that is no rule
Pieces == Range(GIT_IGNORE) \cup {"\n", "put"}
Contents == UNION {[1..k -> Pieces] : k \in 0..MaxGitignoreLen}
\* existingGitignore.includes(rule), line 271
Includes(content, rule) == \E i \in DOMAIN content : content[i] = rule
\* fs.readFile(paths.gitignore, "utf-8").catch(() => ""), line 270
ReadGitignore(file) == IF file.exists THEN file.content ELSE <<>>
RECURSIVE FilterRules(_, _)
FilterRules(rules, existing) ==
    IF rules = <<>> THEN <<>>
    ELSE (IF Includes(existing, Head(rules)) THEN <<>> ELSE <<Head(rules)>>)
             \o FilterRules(Tail(rules), existing)
\* every rule, present or not
RequiredRulesUnfiltered(existing) == GIT_IGNORE
\* GIT_IGNORE.filter(rule => !existingGitignore.includes(rule)), line 271
RequiredRules(existing) == FilterRules(GIT_IGNORE, existing)
RECURSIVE JoinLines(_)
\* requiredRules.join("\n")
JoinLines(rules) ==
    IF Len(rules) <= 1 THEN rules
    ELSE <<Head(rules), "\n">> \o JoinLines(Tail(rules))
\* lines 272-274: the file after the merge
MergedGitignore(file) ==
    LET existing == ReadGitignore(file)
        requiredRules == RequiredRules(existing)
    IN  IF Len(requiredRules) > 0
        THEN [exists |-> TRUE,
              content |-> existing \o <<"\n">> \o JoinLines(requiredRules) \o <<"\n">>]
        ELSE file

\* the .gitignore the template ships, or none
GitignoreFiles ==
    {[exists |-> FALSE, content |-> <<>>]}
    \cup {[exists |-> TRUE, content |-> c] : c \in Contents}

GitignoreInit ==
    /\ NoRun
    /\ NoScripts
    /\ \E f \in GitignoreFiles : gitignore = [original |-> f, file |-> f, after |-> <<>>]
    /\ pkgJson = Idle
    /\ projectJson = Idle
    /\ childProcess = Idle

\* lines 270-274, run once more on the file they left
MergeGitignore ==
    /\ Len(gitignore.after) < MaxMerges
    /\ gitignore' = [gitignore EXCEPT
                        !.file = MergedGitignore(@),
                        !.after = Append(@, MergedGitignore(gitignore.file))]
    /\ UNCHANGED <<run, scripts, pkgJson, projectJson, childProcess>>

GitignoreNext == MergeGitignore
GitignoreSpec == GitignoreInit /\ [][GitignoreNext]_vars

(***************************************************************************)
(* One call of cmd, lines 77-91.  The child writes the characters of its   *)
(* script, encoded in UTF-8, to its two pipes and exits; the parent gets   *)
(* "data" events, each with the bytes read from a pipe in one go, an       *)
(* "exit" event when the child has ended and a "close" event when it has   *)
(* ended and both pipes are drained and closed (child_process of Node.js). *)
(***************************************************************************)
Streams == {"stdout", "stderr"}
\* the characters a child writes: one of one byte, one of two
Chars8 == {"a", "E"}
Writes == {[stream |-> st, char |-> c] : st \in Streams, c \in Chars8}
Scripts == UNION {[1..k -> Writes] : k \in 0..MaxChunks}
\* the UTF-8 bytes of a character
Encode(c) == IF c = "E" THEN <<"c3", "a9">> ELSE <<c>>
RECURSIVE Decode(_)
\* data.toString(): the conversion `output += data` applies to each Buffer on
\* its own; a byte sequence that is not complete within the Buffer becomes
\* U+FFFD
Decode(bytes) ==
    IF bytes = <<>> THEN <<>>
    ELSE IF Head(bytes) = "c3" /\ Len(bytes) >= 2 /\ bytes[2] = "a9"
         THEN <<"E">> \o Decode(Tail(Tail(bytes)))
         ELSE IF Head(bytes) \in {"c3", "a9"}
              THEN <<"fffd">> \o Decode(Tail(bytes))
              ELSE <<Head(bytes)>> \o Decode(Tail(bytes))
\* the characters of a "data" event as they are added to output
Received(st, bytes) == [i \in DOMAIN Decode(bytes) |-> [stream |-> st, char |-> Decode(bytes)[i]]]
\* how the child ends: with an exit code, or killed by a signal (code null)
Endings ==
    {[null |-> FALSE, code |-> c] : c \in {0, 1, 127}} \cup {[null |-> TRUE, code |-> 0]}
\* code === 0, line 85
CodeIsZero(ending) == ~ending.null /\ ending.code = 0
\* new InitError(`Command "${cmdStr}" exited with code ${code}\n\n${output}`)
ExitError(cmdStr, ending, output) ==
    [class |-> "InitError", command |-> cmdStr, code |-> ending, output |-> output]
Pending == [state |-> "pending"]
\* resolve and reject of a promise that is settled already do nothing
Settle(promise, outcome) == IF promise.state = "pending" THEN outcome ELSE promise
\* the handler of lines 84-88
OnClose(c) ==
    Settle(c.promise,
           IF CodeIsZero(c.ending)
           THEN [state |-> "fulfilled", value |-> c.output]
           ELSE [state |-> "rejected",
                 value |-> ExitError(c.cmdStr, c.ending, c.output)])
\* the event the handler of lines 84-88 is registered for
SettlesOn == "close"

CmdInit ==
    /\ NoRun
    /\ NoScripts
    /\ \E c \in {"git init", "npm run build"}, sc \in Scripts, e \in Endings :
          childProcess = [cmdStr |-> c, script |-> sc, ending |-> e, phase |-> "created",
                          written |-> 0,
                          pipe |-> [st \in Streams |-> <<>>],
                          output |-> <<>>, promise |-> Pending]
    /\ pkgJson = Idle
    /\ projectJson = Idle
    /\ gitignore = Idle

Running(phases) == childProcess # Idle /\ childProcess.phase \in phases

\* line 80: the shell is started
Spawn ==
    /\ Running({"created"})
    /\ childProcess' = [childProcess EXCEPT !.phase = "running"]
    /\ UNCHANGED <<run, scripts, pkgJson, projectJson, gitignore>>

\* line 89: the shell cannot be started, the "error" event rejects
SpawnFails ==
    /\ Running({"created"})
    /\ childProcess' =
           [childProcess EXCEPT
               !.phase = "unspawned",
               !.promise = Settle(@, [state |-> "rejected",
                                      value |-> SpawnError(childProcess.cmdStr)])]
    /\ UNCHANGED <<run, scripts, pkgJson, projectJson, gitignore>>

\* the child writes its next character
ChildWrites ==
    /\ Running({"running"})
    /\ childProcess.written < Len(childProcess.script)
    /\ LET w == childProcess.script[childProcess.written + 1] IN
          childProcess' = [childProcess EXCEPT
                              !.written = @ + 1,
                              !.pipe[w.stream] = @ \o Encode(w.char)]
    /\ UNCHANGED <<run, scripts, pkgJson, projectJson, gitignore>>

\* lines 82-83: a "data" event with the first n bytes of the pipe,
\* output += data
Data(st) ==
    /\ Running({"running", "exited"})
    /\ \E n \in 1..Len(childProcess.pipe[st]) :
          childProcess' =
              [childProcess EXCEPT
                  !.pipe[st] = SubSeq(@, n + 1, Len(@)),
                  !.output = @ \o Received(st, SubSeq(childProcess.pipe[st], 1, n))]
    /\ UNCHANGED <<run, scripts, pkgJson, projectJson, gitignore>>

\* the child ends: the "exit" event, which may come before the pipes are read
ChildExits ==
    /\ Running({"running"})
    /\ childProcess.written = Len(childProcess.script)
    /\ childProcess' =
           [childProcess EXCEPT
               !.phase = "exited",
               !.promise = IF SettlesOn = "exit" THEN OnClose(childProcess) ELSE @]
    /\ UNCHANGED <<run, scripts, pkgJson, projectJson, gitignore>>

\* lines 84-88: the "close" event, after the exit and the end of both pipes
Close ==
    /\ Running({"exited"})
    /\ \A st \in Streams : childProcess.pipe[st] = <<>>
    /\ childProcess' =
           [childProcess EXCEPT
               !.phase = "closed",
               !.promise = IF SettlesOn = "close" THEN OnClose(childProcess) ELSE @]
    /\ UNCHANGED <<run, scripts, pkgJson, projectJson, gitignore>>

CmdNext ==
    \/ Spawn \/ SpawnFails
    \/ ChildWrites
    \/ \E st \in Streams : Data(st)
    \/ ChildExits
    \/ Close
CmdSpec == CmdInit /\ [][CmdNext]_vars

(***************************************************************************)
(* getTestResults of the cloud-test runner (src/unnamed/part_000, lines    *)
(* 581-662): wait, GET the task, look at its state, up to maxRetries       *)
(* times.  Every request completes, in one of the ways of Completions.     *)
(***************************************************************************)
\* the retryDelay values tried (ms)
RetryDelays == {0, 2000}
\* the bodies a response can have: a task with a state, a JSON object
\* without one, the JSON text null, and text that is not JSON
Bodies ==
    {[text |-> "task", state |-> s] : s \in {"QUEUED", "PROCESSING", "COMPLETE", "FAILED"}}
    \cup {[text |-> t, state |-> UNDEF] : t \in {"object", "null", "garbage"}}
\* the ways a request completes: the "error" event, or a response
Completions ==
    {[error |-> TRUE, status |-> 0, body |-> [text |-> "none", state |-> UNDEF]]}
    \cup {[error |-> FALSE, status |-> st, body |-> b] : st \in {200, 404}, b \in Bodies}

\* lines 617-644: the promise of one GET
Requested(c) ==
    IF c.error THEN [state |-> "rejected", value |-> "network"]
    ELSE IF c.status = 200
         THEN IF c.body.text = "garbage"
              THEN [state |-> "rejected", value |-> "SyntaxError"]
              ELSE [state |-> "fulfilled", value |-> c.body]
         ELSE [state |-> "rejected", value |-> "Failed to get results"]

\* a loop that polls once more
LoopTestInclusive(p) == p.i <= p.maxRetries
\* i < maxRetries, line 586
LoopTest(p) == p.i < p.maxRetries

\* lines 589-659: the function after the request has completed with c
Polled(p, c) ==
    LET result == Requested(c) IN
    IF result.state = "rejected"
    THEN [p EXCEPT !.phase = "over",
                   !.outcome = [state |-> "thrown", value |-> result.value]]
    ELSE IF result.value.text = "null"
         THEN [p EXCEPT !.phase = "over",
                        !.outcome = [state |-> "thrown", value |-> "TypeError"]]
         ELSE IF result.value.state \in {"COMPLETE", "FAILED"}
              THEN [p EXCEPT !.phase = "over",
                             !.outcome = [state |-> "returned", value |-> result.value]]
              ELSE [p EXCEPT !.phase = "loop", !.i = @ + 1]

PollInit ==
    /\ NoRun
    /\ NoUnits
    /\ \E n \in 0..MaxRetries, d \in RetryDelays :
          poll = [maxRetries |-> n, retryDelay |-> d, i |-> 0, phase |-> "loop",
                  timers |-> <<>>, gets |-> 0, seen |-> <<>>, outcome |-> Pending]
    /\ runner = Idle
    /\ links = Idle
    /\ packages = Idle

\* lines 586-587: the loop goes on, the timer is set
SetTimer ==
    /\ poll.phase = "loop"
    /\ LoopTest(poll)
    /\ poll' = [poll EXCEPT !.phase = "waiting", !.timers = Append(@, poll.retryDelay)]
    /\ UNCHANGED <<run, units, runner, links, packages>>

\* line 661: the loop is over
GiveUp ==
    /\ poll.phase = "loop"
    /\ ~LoopTest(poll)
    /\ poll' = [poll EXCEPT !.phase = "over",
                            !.outcome = [state |-> "thrown", value |-> "timeout"]]
    /\ UNCHANGED <<run, units, runner, links, packages>>

\* lines 587-643: the timer fires and the GET is sent
SendRequest ==
    /\ poll.phase = "waiting"
    /\ poll' = [poll EXCEPT !.phase = "requesting", !.gets = @ + 1]
    /\ UNCHANGED <<run, units, runner, links, packages>>

\* lines 617-659: the request completes
RequestCompletes ==
    /\ poll.phase = "requesting"
    /\ \E c \in Completions : poll' = Polled([poll EXCEPT !.seen = Append(@, c)], c)
    /\ UNCHANGED <<run, units, runner, links, packages>>

PollNext == SetTimer \/ GiveUp \/ SendRequest \/ RequestCompletes
\* timers fire and, as the claim supposes, every request completes
PollSpec == PollInit /\ [][PollNext]_vars /\ WF_vars(PollNext)

(***************************************************************************)
(* The cloud-test runner: main of src/unnamed/part_000 (lines 852-913),    *)
(* with the outcome of each step it awaits chosen freely.                  *)
(***************************************************************************)
\* what cloud-test.lua returns (lines 273-280), before JSON encoding
LuaOutput(successCount, failureCount) ==
    [success |-> failureCount = 0, totalTests |-> successCount + failureCount,
     passed |-> successCount, failed |-> failureCount]
\* testResults.output: absent or without results, results that are not JSON,
\* or the JSON the test script returned
Outputs ==
    {[kind |-> k, results |-> LuaOutput(0, 0)] : k \in {"none", "garbage"}}
    \cup {[kind |-> "results", results |-> LuaOutput(s, f)] :
             s \in 0..MaxTests, f \in 0..MaxTests}
\* what getTestResults returns: a task that is COMPLETE or FAILED
TestResults == {[state |-> st, output |-> o] : st \in {"COMPLETE", "FAILED"}, o \in Outputs}

\* displayResults, lines 673-697: parsedResults.success
ParsedSuccess(testResults) ==
    CASE testResults.output.kind = "results" -> testResults.output.results.success
      [] testResults.output.kind = "none" -> testResults.state = "COMPLETE"
      [] OTHER -> FALSE

\* process.exit(parsedResults.success ? 0 : 1), line 898
ExitCodeOf(success) == IF success THEN 0 ELSE 1

\* the step is entered
Entered(r, step) == [r EXCEPT !.steps = Append(@, step)]
\* the catch of lines 900-912
Caught(r, step) == [r EXCEPT !.pc = "exited", !.failed = step, !.exitCode = 1]

RunnerInit ==
    /\ NoRun
    /\ NoUnits
    /\ \E h \in BOOLEAN, e \in BOOLEAN, b \in BOOLEAN :
          runner = [help |-> h, envComplete |-> e, skipBuild |-> b, pc |-> "start",
                    steps |-> <<>>, failed |-> "none", hasResults |-> FALSE,
                    testResults |-> [state |-> "none", output |-> [kind |-> "none",
                                                                   results |-> LuaOutput(0, 0)]],
                    success |-> FALSE, exitCode |-> -1]
    /\ poll = Idle
    /\ links = Idle
    /\ packages = Idle

\* lines 854-857
ShowHelp ==
    /\ runner.pc = "start" /\ runner.help
    /\ runner' = [runner EXCEPT !.pc = "exited", !.exitCode = 0]
    /\ UNCHANGED <<run, units, poll, links, packages>>

\* lines 873 and 755-768: a missing variable ends the process with code 1
ValidateEnvironment ==
    /\ runner.pc = "start" /\ ~runner.help
    /\ runner' = IF runner.envComplete
                 THEN [Entered(runner, "validate") EXCEPT !.pc = "cleanup"]
                 ELSE Caught(Entered(runner, "validate"), "validate")
    /\ UNCHANGED <<run, units, poll, links, packages>>

\* lines 876 and 773-807: errors of the clean-up are logged, not thrown
CleanupOldTestResults ==
    /\ runner.pc = "cleanup"
    /\ \E ok \in BOOLEAN : runner' = [runner EXCEPT !.pc = "build"]
    /\ UNCHANGED <<run, units, poll, links, packages>>

\* lines 879 and 394-418
BuildPlace ==
    /\ runner.pc = "build"
    /\ \/ /\ runner.skipBuild
          /\ runner' = [runner EXCEPT !.pc = "upload"]
       \/ /\ ~runner.skipBuild
          /\ \E ok \in BOOLEAN :
                runner' = IF ok THEN [Entered(runner, "build") EXCEPT !.pc = "upload"]
                          ELSE Caught(Entered(runner, "build"), "build")
    /\ UNCHANGED <<run, units, poll, links, packages>>

\* lines 882 and 423-501: the build output is missing, the request fails or
\* the status is not 200, or the upload succeeds
UploadPlace ==
    /\ runner.pc = "upload"
    /\ \E ok \in BOOLEAN :
          runner' = IF ok THEN [Entered(runner, "upload") EXCEPT !.pc = "submit"]
                    ELSE Caught(Entered(runner, "upload"), "upload")
    /\ UNCHANGED <<run, units, poll, links, packages>>

\* lines 885-889 and 506-576: the task is submitted and has a path, or the
\* request fails, or the response has no path
RunTests ==
    /\ runner.pc = "submit"
    /\ \E response \in {"path", "noPath", "rejected"} :
          runner' = IF response = "path"
                    THEN [Entered(runner, "submit") EXCEPT !.pc = "poll"]
                    ELSE Caught(Entered(runner, "submit"), "submit")
    /\ UNCHANGED <<run, units, poll, links, packages>>

\* line 891: getTestResults returns a task
GetTestResults ==
    /\ runner.pc = "poll"
    /\ \E t \in TestResults :
          runner' = [Entered(runner, "poll") EXCEPT
                        !.pc = "display", !.hasResults = TRUE, !.testResults = t]
    /\ UNCHANGED <<run, units, poll, links, packages>>

\* line 891: getTestResults throws (the timeout, or the error of a poll)
GetTestResultsThrows ==
    /\ runner.pc = "poll"
    /\ runner' = Caught(Entered(runner, "poll"), "poll")
    /\ UNCHANGED <<run, units, poll, links, packages>>

\* lines 892-898 and 667-750: the results are parsed, saved and shown, and
\* the process exits; writing the result file may throw
DisplayResults ==
    /\ runner.pc = "display"
    /\ \E saved \in BOOLEAN :
          runner' =
              IF saved
              THEN [Entered(runner, "display") EXCEPT
                       !.pc = "exited",
                       !.success = ParsedSuccess(runner.testResults),
                       !.exitCode = ExitCodeOf(ParsedSuccess(runner.testResults))]
              ELSE Caught(Entered(runner, "display"), "display")
    /\ UNCHANGED <<run, units, poll, links, packages>>

RunnerNext ==
    \/ ShowHelp
    \/ ValidateEnvironment
    \/ CleanupOldTestResults
    \/ BuildPlace
    \/ UploadPlace
    \/ RunTests
    \/ GetTestResults \/ GetTestResultsThrows
    \/ DisplayResults
RunnerSpec == RunnerInit /\ [][RunnerNext]_vars

(***************************************************************************)
(* The link scripts: link-skills (src/unnamed/part_002) and                *)
(* link-claude-code-staffs (templates/package/scripts), after parseArgs    *)
(* has returned the targets.  The scan of node_modules is an input: the    *)
(* items it found.  A name is the sequence of the parts that "__" joins.   *)
(***************************************************************************)
PLUGIN_DIRS == <<"agents", "skills", "commands">>
LinkScripts == {"skills", "staffs"}

\* a part of a link name, and whether it starts with "@"
Part(s) == [at |-> FALSE, text |-> s]
\* link-claude-code-staffs line 347: target.startsWith('@') ? target : `@${target}`
Scope(target) == [target EXCEPT !.at = TRUE]
\* entry.name.startsWith('@'), line 219
StartsWithAt(name) == name[1].at

ScriptRoot == <<"/", "project">>
\* path.resolve(p): an absolute path stays, a relative one is put under cwd
ResolvePath(p) == IF Len(p) > 0 /\ p[1] = "/" THEN p ELSE ScriptRoot \o p

\* what a path of .claude holds
Absent == [kind |-> "absent", to |-> <<>>]
Symlink(to) == [kind |-> "symlink", to |-> to]
Directory == [kind |-> "directory", to |-> <<>>]
PlainFile == [kind |-> "file", to |-> <<>>]
\* destinations of links left by earlier runs: one still there, one removed
Elsewhere == <<"/", "elsewhere">>
Gone == <<"/", "gone">>
PriorEntries == {Absent, Symlink(Elsewhere), Symlink(Gone), Directory, PlainFile}

\* fs.existsSync(p): follows links, false for a link whose destination is gone
ExistsSync(e) == e.kind \in {"directory", "file"} \/ (e.kind = "symlink" /\ e.to # Gone)
\* fs.lstatSync(p): the entry itself
LstatIsSymbolicLink(e) == e.kind = "symlink"
LstatIsDirectory(e) == e.kind = "directory"

\* the items a scan finds: what a link is called, where it goes, what it is
\* a link to
SkillItem(pkg, skill) ==
    [dir |-> "skills", name |-> <<Part(pkg), Part(skill)>>,
     source |-> ScriptRoot \o <<"node_modules", "bevy", pkg, "skills", skill>>]
StaffItem(pluginDir, target, pkg, rest) ==
    [dir |-> pluginDir, name |-> <<Scope(target), Part(pkg)>> \o [i \in 1..Len(rest) |-> Part(rest[i])],
     source |-> ScriptRoot \o <<"node_modules", target.text, pkg, ".claude-plugin", pluginDir>> \o rest]
\* part_002 lines 240-244, and link-claude-code-staffs lines 357-372
Scans(script) ==
    IF script = "skills"
    THEN {<<>>, <<SkillItem("app", "ecs")>>, <<SkillItem("app", "ui")>>,
          <<SkillItem("app", "ecs"), SkillItem("app", "ui")>>}
    ELSE {<<>>, <<StaffItem("agents", Part("bevy"), "app", <<>>)>>,
          <<StaffItem("skills", Scope(Part("bevy")), "app", <<"ecs">>)>>,
          <<StaffItem("agents", Part("bevy"), "app", <<>>),
            StaffItem("skills", Part("bevy"), "app", <<"ecs">>),
            StaffItem("commands", Part("bevy"), "app", <<>>)>>}

KeyOf(item) == [dir |-> item.dir, name |-> item.name]
\* the paths of .claude a run is followed on: the names the scans link, and
\* for link-claude-code-staffs an entry of the user's whose name has no "@"
LinkKeys(script) ==
    {KeyOf(s[i]) : <<s, i>> \in {<<s, i>> \in Scans(script) \X (1..3) : i <= Len(s)}}
    \cup (IF script = "staffs" THEN {[dir |-> "skills", name |-> <<Part("mine")>>]} ELSE {})
\* the states .claude can be in before a run: an entry lies in a directory
\* that exists
ClaudeStates(script) ==
    {f \in [dirs : SUBSET {PLUGIN_DIRS[i] : i \in 1..3},
            entries : [LinkKeys(script) -> PriorEntries]] :
        /\ \A k \in LinkKeys(script) : f.entries[k] # Absent => k.dir \in f.dirs
        /\ \A k \in LinkKeys(script) : k.dir = "commands" => f.entries[k] = Absent
        /\ f.dirs \subseteq {k.dir : k \in LinkKeys(script)}}

\* createSymlink without its preview: lines 175-199 of part_002, 283-307 of
\* link-claude-code-staffs.  Whatever existsSync sees is removed, then
\* symlinkSync throws EEXIST when the path is still taken.
Linked(e, source) ==
    LET cleared == IF ExistsSync(e) THEN Absent ELSE e
    IN  IF cleared = Absent
        THEN [entry |-> Symlink(ResolvePath(source)), ok |-> TRUE]
        ELSE [entry |-> cleared, ok |-> FALSE]
\* createSymlink without the return of lines 170-173
CreateSymlinkNoPreview(e, source, dryRun) == Linked(e, source)
\* createSymlink(source, target, dryRun)
CreateSymlink(e, source, dryRun) ==
    IF dryRun THEN [entry |-> e, ok |-> TRUE] ELSE Linked(e, source)

\* the entries cleanClaudeDirs removes, lines 209-233
ToRemove(f, k) ==
    /\ k.dir \in f.dirs
    /\ StartsWithAt(k.name)
    /\ LstatIsDirectory(f.entries[k]) \/ LstatIsSymbolicLink(f.entries[k])
\* cleanClaudeDirs without its preview, lines 243-252
Emptied(f) ==
    [f EXCEPT !.entries = [k \in DOMAIN f.entries |->
                              IF ToRemove(f, k) THEN Absent ELSE f.entries[k]]]
CleanedDirs(f, dryRun) == IF dryRun THEN f ELSE Emptied(f)

\* fs.mkdirSync(dir, { recursive: true }) when the directory is not there and
\* the run is no preview: part_002 lines 218-221, staffs lines 353-355
EnsuredDir(f, d, dryRun) ==
    IF ~dryRun /\ d \notin f.dirs THEN [f EXCEPT !.dirs = @ \cup {d}] ELSE f

LinkInit ==
    /\ NoRun
    /\ NoUnits
    /\ \E s \in LinkScripts, d \in BOOLEAN :
          \E scan \in Scans(s), f \in ClaudeStates(s) :
              links = [script |-> s, dryRun |-> d, items |-> scan, idx |-> 1,
                       pc |-> "start", fs0 |-> f, fs |-> f,
                       totalItems |-> 0, successCount |-> 0, results |-> <<>>,
                       exitCode |-> -1]
    /\ poll = Idle
    /\ runner = Idle
    /\ packages = Idle

\* part_002 lines 217-221
EnsureSkillsDir ==
    /\ links.pc = "start" /\ links.script = "skills"
    /\ links' = [links EXCEPT !.pc = "link",
                              !.fs = EnsuredDir(@, "skills", links.dryRun)]
    /\ UNCHANGED <<run, units, poll, runner, packages>>

\* link-claude-code-staffs line 323
CleanClaudeDirs ==
    /\ links.pc = "start" /\ links.script = "staffs"
    /\ links' = [links EXCEPT !.pc = "link",
                              !.fs = CleanedDirs(@, links.dryRun)]
    /\ UNCHANGED <<run, units, poll, runner, packages>>

\* one pass of the inner loop: part_002 lines 240-249, staffs lines 349-377
LinkItem ==
    /\ links.pc = "link" /\ links.idx <= Len(links.items)
    /\ LET item == links.items[links.idx]
           f == IF links.script = "staffs"
                THEN EnsuredDir(links.fs, item.dir, links.dryRun) ELSE links.fs
           r == CreateSymlink(f.entries[KeyOf(item)], item.source, links.dryRun)
       IN  links' = [links EXCEPT
                        !.idx = @ + 1,
                        !.totalItems = @ + 1,
                        !.successCount = IF r.ok THEN @ + 1 ELSE @,
                        !.results = Append(@, r.ok),
                        !.fs = [f EXCEPT !.entries[KeyOf(item)] = r.entry]]
    /\ UNCHANGED <<run, units, poll, runner, packages>>

\* part_002 lines 252-262, staffs lines 386-396
FinishLinks ==
    /\ links.pc = "link" /\ links.idx > Len(links.items)
    /\ links' = [links EXCEPT
                    !.pc = "done",
                    !.exitCode = IF ~links.dryRun /\ links.successCount < links.totalItems
                                 THEN 1 ELSE 0]
    /\ UNCHANGED <<run, units, poll, runner, packages>>

LinkNext == EnsureSkillsDir \/ CleanClaudeDirs \/ LinkItem \/ FinishLinks
LinkSpec == LinkInit /\ [][LinkNext]_vars

(***************************************************************************)
(* The package-linking script, src/unnamed/part_003.                       *)
(***************************************************************************)
\* the folders beside the project that a dependency can name
Folders == {"bevy_app", "bevy_ecs"}
Dep(scope, folder) == [scope |-> scope, folder |-> folder]
\* the keys of dependencies and devDependencies, in order (line 35)
DepLists ==
    {<<>>, <<Dep("@rbxts", "services")>>,
     <<Dep(ProjectScope, "bevy_app")>>,
     <<Dep("@rbxts", "services"), Dep(ProjectScope, "bevy_ecs")>>,
     <<Dep(ProjectScope, "bevy_app"), Dep(ProjectScope, "bevy_ecs")>>,
     <<Dep(ProjectScope, "bevy_ecs"), Dep(ProjectScope, "bevy_app")>>}
\* name.startsWith('@white-dragon-bevy/'), line 36
IsWhiteDragon(d) == d.scope = ProjectScope
\* packageName.replace('@white-dragon-bevy/', ''), line 60
FolderName(d) == d.folder
WhiteDragonPackages(deps) == SelectSeq(deps, IsWhiteDragon)

\* ../<folderName>: missing, or there with or without out and package.json
Siblings == [Folders -> {"missing", "bare", "out", "manifest", "full"}]
HasOut(s) == s \in {"out", "full"}
HasManifest(s) == s \in {"manifest", "full"}

\* node_modules/@white-dragon-bevy/<folder>
NoPackage == [dir |-> FALSE, out |-> "none", manifest |-> "none"]
OldPackage == [dir |-> TRUE, out |-> "old", manifest |-> "old"]
\* node_modules/@white-dragon-bevy before a run
ScopeDirs ==
    {n \in [exists : BOOLEAN, pkgs : [Folders -> {NoPackage, OldPackage}]] :
        (\E f \in Folders : n.pkgs[f].dir) => n.exists}
\* fs.rmSync(whiteDragonNodeModulesPath, { recursive: true, force: true })
Removed == [exists |-> FALSE, pkgs |-> [f \in Folders |-> NoPackage]]
\* lines 85-105 for one package
LinkedPackage(sibling) ==
    [dir |-> TRUE,
     out |-> IF HasOut(sibling) THEN "link" ELSE "none",
     manifest |-> IF HasManifest(sibling) THEN "copy" ELSE "none"]

PackagesInit ==
    /\ NoRun
    /\ NoUnits
    /\ \E ci \in BOOLEAN, deps \in DepLists, s \in Siblings, n \in ScopeDirs :
          packages = [ci |-> ci, deps |-> deps, siblings |-> s,
                      nodeModules0 |-> n, nodeModules |-> n, pc |-> "start",
                      whiteDragonPackages |-> <<>>, packagePaths |-> <<>>,
                      linked |-> 0, exitCode |-> -1]
    /\ poll = Idle
    /\ runner = Idle
    /\ links = Idle

\* lines 22-25
SkipInCI ==
    /\ packages.pc = "start" /\ packages.ci
    /\ packages' = [packages EXCEPT !.pc = "exited", !.exitCode = 0]
    /\ UNCHANGED <<run, units, poll, runner, links>>

\* lines 31-43
ReadDependencies ==
    /\ packages.pc = "start" /\ ~packages.ci
    /\ LET found == WhiteDragonPackages(packages.deps)
       IN  packages' = IF Len(found) = 0
                       THEN [packages EXCEPT !.pc = "exited", !.exitCode = 0]
                       ELSE [packages EXCEPT !.pc = "delete", !.whiteDragonPackages = found]
    /\ UNCHANGED <<run, units, poll, runner, links>>

\* lines 46-53
DeleteScopeDir ==
    /\ packages.pc = "delete"
    /\ packages' = [packages EXCEPT
                       !.pc = "validate",
                       !.nodeModules = IF @.exists THEN Removed ELSE @]
    /\ UNCHANGED <<run, units, poll, runner, links>>

\* one pass of the loop of lines 58-71
ValidatePackage ==
    /\ packages.pc = "validate"
    /\ Len(packages.packagePaths) < Len(packages.whiteDragonPackages)
    /\ LET d == packages.whiteDragonPackages[Len(packages.packagePaths) + 1]
       IN  packages' = IF packages.siblings[FolderName(d)] = "missing"
                       THEN [packages EXCEPT !.pc = "exited", !.exitCode = 1]
                       ELSE [packages EXCEPT !.packagePaths = Append(@, FolderName(d))]
    /\ UNCHANGED <<run, units, poll, runner, links>>

\* one pass of the loop of lines 75-106
LinkPackage ==
    /\ packages.pc = "validate"
    /\ Len(packages.packagePaths) = Len(packages.whiteDragonPackages)
    /\ packages.linked < Len(packages.packagePaths)
    /\ LET f == packages.packagePaths[packages.linked + 1]
       IN  packages' = [packages EXCEPT
                           !.linked = @ + 1,
                           !.nodeModules.exists = TRUE,
                           !.nodeModules.pkgs[f] = LinkedPackage(packages.siblings[f])]
    /\ UNCHANGED <<run, units, poll, runner, links>>

\* lines 108-109: the script ends
PackagesDone ==
    /\ packages.pc = "validate"
    /\ packages.linked = Len(packages.whiteDragonPackages)
    /\ packages' = [packages EXCEPT !.pc = "exited", !.exitCode = 0]
    /\ UNCHANGED <<run, units, poll, runner, links>>

PackagesNext ==
    \/ SkipInCI
    \/ ReadDependencies
    \/ DeleteScopeDir
    \/ ValidatePackage
    \/ LinkPackage
    \/ PackagesDone
PackagesSpec == PackagesInit /\ [][PackagesNext]_vars

(***************************************************************************)
(* Properties.                                                             *)
(***************************************************************************)
MkdirDestination == Op("ensureDir", "cwd")
Steps == {"copy", "updatePackageJson", "gitInit", "install", "updateProject",
          "clone", "build", "done"} \cup Awaiting
\* the names the conflict check looks at, once the template is known
CheckedNames ==
    IF template \in Templates THEN Range(PathValues(template)) ELSE Range(FixedNames)
\* the path the check reports for a name
Reported(n) == Relative(InvocationDir, Join(Resolve(dir[1]), n))
\* the probe has completed: Promise.allSettled has resolved
Joined == AllSettled /\ pc # "probing"
\* the run is past the template question
PastTemplateQuestion ==
    \/ pc \in {"askPackageManager", "askGitProtocol", "check"} \cup Steps
    \/ pc = "failed" /\ err \in {"conflict", "fs", "cmd", "clone"}
    \/ pc = "exited" /\ cancelled # "dir"

\* C1: when the destination already holds a file the run would create (a plain
\* file at a checked name, or a non-empty directory there, which is where a
\* nested template file lives), the run issues no write at all, never enters
\* a step, and the conflict check, once run, ends it with the conflict error.
C1_ConflictAbortsWithoutWrite ==
    (\E n \in CheckedNames : fs0.entries[n] \in {"file", "fullDir"}) =>
        /\ ops = <<>>
        /\ pc \notin Steps
        /\ checked => pc = "failed" /\ err = "conflict"

C1_Witness ==
    /\ \E n \in CheckedNames : fs0.entries[n] = "file"
    /\ checked /\ pc = "failed" /\ err = "conflict" /\ ops = <<>>

\* C2: a conflict error lists every conflicting path exactly once, relative to
\* the invocation directory.
C2_EveryConflictListedOnce ==
    (pc = "failed" /\ err = "conflict") =>
        /\ \A n \in Range(PathValues(template)) :
              IsConflict(fs.entries[n]) => Count(existingPaths, Reported(n)) = 1
        /\ \A i \in DOMAIN existingPaths :
              \E n \in Range(PathValues(template)) :
                  existingPaths[i] = Reported(n) /\ IsConflict(fs.entries[n])

\* C3: no filesystem write of any kind, the creation of the destination
\* directory included, is issued before the conflict check has passed.
C3_NoWriteBeforeCheck ==
    ops # <<>> => checked /\ existingPaths = <<>>

\* C4: the check reports a name exactly when it is a plain file, a symbolic
\* link (whatever it points to) or a non-empty directory.
C4_Classification ==
    checked =>
        \A n \in Range(PathValues(template)) :
            (Reported(n) \in Range(existingPaths))
                <=> (fs0.entries[n] \in {"file", "fullDir"} \cup Links)

\* digits.digits.digits, said without the automaton
DigitsDotDigitsDotDigits(s) ==
    \E i \in DOMAIN s : \E j \in DOMAIN s :
        /\ 1 < i /\ i + 1 < j /\ j < Len(s)
        /\ s[i] = "." /\ s[j] = "."
        /\ \A k \in DOMAIN s \ {i, j} : IsDigit(s[k])

\* C5: a supplied --compilerVersion is accepted iff it is digits.digits.digits;
\* any other value ends the run with the validation error before a question is
\* shown and before any side effect.
C5_CompilerVersionValidated ==
    argv.compilerVersion # None =>
        IF DigitsDotDigitsDotDigits(argv.compilerVersion[1])
        THEN err # "validation" /\ (pc = "start" => ENABLED BuilderAccepts)
        ELSE /\ pc \in {"start", "failed"}
             /\ pc = "failed" => err = "validation"
             /\ asked = <<>> /\ ops = <<>> /\ fs = fs0

C5_Witness ==
    /\ argv.compilerVersion = Some(<<"a", "1", ".", "1", ".", "1">>)
    /\ pc = "failed" /\ err = "validation"

\* C6: when git is not on the path the run ends with the git-required error at
\* the probe: no template, package-manager or git-protocol question is asked
\* and no step runs.
C6_GitMissingIsFatal ==
    lookpathResult["git"] = "notfound" =>
        /\ Range(asked) \subseteq {"dir"}
        /\ \A i \in DOMAIN ops : ops[i] = MkdirDestination
        /\ pc \in {"start", "promptDir", "ensureDir", "probe", "probing", "failed", "exited"}
        /\ Joined => pc = "failed" /\ err = "gitRequired"

C6_Witness ==
    /\ lookpathResult["git"] = "notfound"
    /\ Joined /\ pc = "failed" /\ err = "gitRequired"

\* C7: a rejected lookup counts as available for the three package managers
\* and as unavailable for git, which ends the run with the git-required error.
C7_RejectedLookups ==
    Joined =>
        \A t \in Range(Tools) :
            lookups[t] = "rejected" =>
                IF t = "git"
                THEN ~avail[t] /\ pc = "failed" /\ err = "gitRequired"
                ELSE avail[t]

\* C8: the package-manager question is never shown when --packageManager was
\* given, when at most one manager is installed or when --yes was given; and
\* when it is skipped without --packageManager, npm is the manager whose
\* install and build commands are run.
C8_PackageManagerQuestion ==
    /\ "packageManager" \in Range(asked) =>
          /\ argv.packageManager = UNDEF
          /\ PackageManagerCount > 1
          /\ argv.yes # "true"
    /\ (packageManager # UNDEF /\ "packageManager" \notin Range(asked)
            /\ argv.packageManager = UNDEF) =>
          /\ packageManager = "npm"
          /\ \A i \in DOMAIN ops :
                ops[i].op = "cmd" =>
                    ops[i].arg \in {"git init", "git clone",
                                    "npm install --silent", "npm run build"}

C8_Witness ==
    /\ argv.packageManager = UNDEF /\ argv.yes = "true" /\ PackageManagerCount > 1
    /\ "packageManager" \notin Range(asked)
    /\ pc = "done"
    /\ Op("cmd", "npm install --silent") \in Range(ops)
    /\ Op("cmd", "npm run build") \in Range(ops)

QuestionOrder == <<"dir", "template", "packageManager", "gitProtocol">>
Position(q) == CHOOSE i \in DOMAIN QuestionOrder : QuestionOrder[i] = q

\* C9: the questions shown appear in the order (directory,) template, package
\* manager, git protocol, each at most once; the template question is shown
\* exactly when no template subcommand was used; the git-protocol question is
\* shown only if a repositories configuration with at least one repository was
\* loaded and --gitProtocol was not given.
C9_QuestionOrder ==
    /\ \A i \in DOMAIN asked : \A j \in DOMAIN asked :
          i < j => Position(asked[i]) < Position(asked[j])
    /\ PastTemplateQuestion => ("template" \in Range(asked) <=> initMode = "none")
    /\ "gitProtocol" \in Range(asked) =>
          /\ HasRepositories
          /\ repoFile.state = "ok" /\ Len(repoFile.repositories) > 0
          /\ argv.gitProtocol = UNDEF

C9_Witness ==
    /\ asked = <<"template", "packageManager", "gitProtocol">>
    /\ initMode = "none"
    /\ pc = "done"

\* C10: a cancelled question ends the process at once with exit code 1: the
\* cancelled question is the last one shown, nothing runs afterwards (no
\* conflict check, no step), and only a cancellation exits with code 1.
C10_CancelExits ==
    /\ cancelled # "none" =>
          /\ pc = "exited" /\ exitCode = 1
          /\ asked # <<>> /\ asked[Len(asked)] = cancelled
          /\ ~checked
          /\ \A i \in DOMAIN ops : ops[i] = MkdirDestination
          /\ cancelled = "dir" => ops = <<>>
          /\ ~ENABLED Next
    /\ (pc = "exited" \/ exitCode # -1) => cancelled # "none"

C10_Witness ==
    /\ cancelled = "gitProtocol"
    /\ pc = "exited" /\ exitCode = 1
    /\ asked = <<"dir", "template", "packageManager", "gitProtocol">>

(***************************************************************************)
(* The steps after the conflict check.                                     *)
(***************************************************************************)
\* the labels of the steps, in the order the steps are to run
StepLabels == <<"Copying template files..", "Updating package.json..",
                "Initializing Git..", "Installing dependencies..",
                "Updating project name..", "Cloning repositories..", "Compiling..">>
Rank(label) == CHOOSE i \in DOMAIN StepLabels : StepLabels[i] = label
IsBenchmark(o) == o.op = "benchmark"
\* the steps started so far, in order
Started == SelectSeq(ops, IsBenchmark)
StartedRanks == {Rank(ops[i].arg) : i \in {j \in DOMAIN ops : IsBenchmark(ops[j])}}
\* the step a call belongs to (0: before the steps)
StepOfOp(o) ==
    CASE o.op = "copy" -> 1
      [] o.op = "outputFile" /\ o.arg = "package.json" -> 2
      [] o.op = "cmd" /\ o.arg = "git init" -> 3
      [] o.op = "appendFile" -> 3
      [] o.op = "cmd" /\ o.arg \in {InstallCommand(m) : m \in Range(PackageManagers)} -> 4
      [] o.op = "outputFile" /\ o.arg = "default.project.json" -> 5
      [] o.op = "ensureDir" /\ o.arg = "parent" -> 6
      [] o.op = "cmd" /\ o.arg = "git clone" -> 6
      [] o.op = "cmd" /\ o.arg \in {BuildCommand(m) : m \in Range(PackageManagers)} -> 7
      [] OTHER -> 0
\* the calls from position i on are issued while their step is the running
\* one (cur), and the steps start in increasing order
RECURSIVE InStepOrder(_, _)
InStepOrder(i, cur) ==
    IF i > Len(ops) THEN TRUE
    ELSE IF IsBenchmark(ops[i])
         THEN Rank(ops[i].arg) > cur /\ InStepOrder(i + 1, Rank(ops[i].arg))
         ELSE /\ \/ ops[i] = MkdirDestination /\ cur = 0
                 \/ StepOfOp(ops[i]) = cur /\ cur > 0
              /\ InStepOrder(i + 1, cur)
DescriptorExists == PathExists(fs.entries["default.project.json"])
\* some configured repository applies to the active template
SomeRepositoryApplies ==
    /\ repoFile.state = "ok"
    /\ \E i \in DOMAIN repoFile.repositories :
          LET t == repoFile.repositories[i].templates IN
          t = None \/ t[1] = <<>> \/ template \in Range(t[1])
\* step r is due in this run
Due(r) ==
    CASE r = 5 -> DescriptorExists
      [] r = 6 -> SomeRepositoryApplies
      [] r = 7 -> argv.skipBuild # "true"
      [] OTHER -> TRUE

\* C11: after the check has passed the steps run in the order copy, manifest
\* patch, git init, install, descriptor patch, clone, build, done: a step
\* starts only when every earlier step that is due has run, the calls of a
\* step are issued while it is the running step, no step starts twice, the
\* descriptor patch runs only if default.project.json exists, the clone step
\* only if a configured repository applies to the template, the build only if
\* --skipBuild was not given, and a run that is done has run every due step.
C11_StepOrder ==
    /\ InStepOrder(1, 0)
    /\ \A r \in StartedRanks :
          /\ Due(r)
          /\ \A q \in 1..(r - 1) : q <= 4 \/ Due(q) => q \in StartedRanks
    /\ pc = "done" => \A r \in DOMAIN StepLabels : Due(r) => r \in StartedRanks
    /\ StartedRanks # {} => checked /\ existingPaths = <<>>

\* a run that is done and has run all seven steps
C11_Witness == pc = "done" /\ Len(Started) = 7

\* a step after the check has thrown
StepFailed == pc = "failed" /\ checked /\ existingPaths = <<>> /\ Started # <<>>
\* the step that was running when the run ended
LastStarted == Rank(Started[Len(Started)].arg)
\* what a completed step leaves under the destination
StepLeft(r) ==
    CASE r = 1 -> \A n \in Range(TemplateEntries(template)) : PathExists(fs.entries[n])
      [] r = 2 -> <<"package.json">> \in fs.made
      [] r = 3 -> <<".git">> \in fs.made
      [] r = 4 -> <<"node_modules">> \in fs.made
      [] r = 5 -> <<"default.project.json">> \in fs.made
      [] r = 7 -> <<"out">> \in fs.made
      [] OTHER -> TRUE
\* the clones that completed: every clone command but a failed last one
ClonesLeft ==
    \A i \in DOMAIN ops :
        /\ ops[i].op = "cmd" /\ ops[i].arg = "git clone"
        /\ ~(pc = "failed" /\ i = Len(ops))
        => ops[i].dest \in fs.made

\* C12: when a step after the check fails (copy, manifest patch, git init,
\* install, descriptor patch, clone, build) the run ends with that error: no
\* later step starts and nothing more can happen, the failed step started
\* once only, the failing call is the last call issued, and what the steps
\* and calls completed before it wrote is still under the destination.
C12_StepFailureIsTerminal ==
    StepFailed =>
        /\ ~ENABLED Next
        /\ err \in {"fs", "cmd", "clone"}
        /\ Cardinality({i \in DOMAIN Started : Started[i] = Started[Len(Started)]}) = 1
        /\ \A i \in DOMAIN Started : Rank(Started[i].arg) <= LastStarted
        /\ StepOfOp(ops[Len(ops)]) \in {0, LastStarted}
        /\ (err = "fs") = (ops[Len(ops)].op # "cmd")
        /\ \A r \in StartedRanks \ {LastStarted} : StepLeft(r)
        /\ ClonesLeft

\* the build fails in a run that ran all seven steps and cloned a repository
C12_Witness ==
    /\ StepFailed /\ err = "cmd" /\ Len(Started) = 7
    /\ errDetail = CmdError(BuildCommand(packageManager))
    /\ \E i \in DOMAIN ops : ops[i].op = "cmd" /\ ops[i].arg = "git clone"

(***************************************************************************)
(* The manifest patch.                                                     *)
(***************************************************************************)
\* C13: after the manifest patch the name of package.json is the project
\* scope, "/", and the basename of the resolved destination directory,
\* whatever the destination; every field other than name and repository is
\* as the template had it.
C13_ManifestName ==
    pkgJson # Idle /\ pkgJson.patched =>
        /\ pkgJson.file.name = <<ProjectScope, Basename(pkgJson.cwd)>>
        /\ pkgJson.file.version = pkgJson.template.version
        /\ pkgJson.file.scripts = pkgJson.template.scripts
        /\ DOMAIN pkgJson.file = DOMAIN pkgJson.template

\* a patched manifest whose name changed
C13_Witness ==
    /\ pkgJson # Idle /\ pkgJson.patched
    /\ pkgJson.file.name = <<ProjectScope, "my_plugin">>
    /\ pkgJson.file.name # pkgJson.template.name
    /\ Len(pkgJson.cwd) = 3

\* the URL with every github.com/<org>/<repo> segment rewritten, from
\* component from on
RECURSIVE ReplaceEvery(_, _, _)
ReplaceEvery(url, dirName, from) ==
    LET i == MatchFrom(url, from) IN
    IF i = 0 THEN url
    ELSE ReplaceEvery([url EXCEPT ![i + 1] = FixedOrg, ![i + 2] = dirName],
                      dirName, i + 3)

\* C14: when the template manifest has a repository, as a string or as an
\* object with a url, the patched URL is the template's URL with the
\* <org>/<repo> part of every github.com/<org>/<repo> segment replaced by
\* white-dragon-bevy and the destination basename, and nothing else changed;
\* a URL without such a segment is unchanged.
C14_RepositoryRewritten ==
    pkgJson # Idle /\ pkgJson.patched
    /\ pkgJson.template.repository.form \in {"string", "object"} =>
        /\ pkgJson.file.repository.form = pkgJson.template.repository.form
        /\ pkgJson.file.repository.url =
               ReplaceEvery(pkgJson.template.repository.url, Basename(pkgJson.cwd), 1)

(***************************************************************************)
(* The descriptor patch.                                                   *)
(***************************************************************************)
\* the template key: the first child of the node that is not special
TemplateKey == FilterKeys(KeysOf(projectJson.original.node[1]))[1]
\* the text after the final "/" of the manifest name
Unscoped == projectJson.pkgName[Len(projectJson.pkgName)]
\* the case C15 is about, after the patch
RenameCase ==
    /\ projectJson # Idle
    /\ projectJson.patched
    /\ projectJson.template = "package"
    /\ projectJson.original.node # None
    /\ FilterKeys(KeysOf(projectJson.original.node[1])) # <<>>

\* C15: in a package-template run whose descriptor has the node with a child
\* that is not special, after the patch and for every destination directory
\* name: the node has a child keyed by the unscoped package name whose value
\* is the sub-tree the template key had, the template key is no longer there
\* as another child, every "$" key has its value, and the descriptor's name
\* is the manifest's new name.
C15_ChildRenamed ==
    RenameCase =>
        LET before == projectJson.original.node[1]
            after == projectJson.file.node[1]
        IN  /\ HasKey(after, Unscoped)
            /\ Get(after, Unscoped) = Get(before, TemplateKey)
            /\ TemplateKey # Unscoped => ~HasKey(after, TemplateKey)
            /\ \A k \in NodeKeys :
                  StartsWithDollar(k) =>
                      /\ HasKey(after, k) = HasKey(before, k)
                      /\ HasKey(before, k) => Get(after, k) = Get(before, k)
            /\ projectJson.file.name = projectJson.pkgName

(***************************************************************************)
(* The .gitignore merge.                                                   *)
(***************************************************************************)
\* the required set of C16
RequiredSet == {"/node_modules", "/out", "/include", "*.tsbuildinfo"}
\* the content the merge found (a missing file counts as empty)
Found == IF gitignore.original.exists THEN gitignore.original.content ELSE <<>>
\* what the first merge added after the content it found
Added == SubSeq(gitignore.after[1].content, Len(Found) + 1,
                Len(gitignore.after[1].content))

\* C16: the merge appends exactly the entries of the required set that the
\* content it found does not contain, each once, appends no entry that is
\* present, leaves the content it found as it was, in front of what it
\* adds; run again on its own result it changes nothing.
C16_GitignoreMerge ==
    gitignore # Idle /\ gitignore.after # <<>> =>
        /\ Len(gitignore.after[1].content) >= Len(Found)
        /\ SubSeq(gitignore.after[1].content, 1, Len(Found)) = Found
        /\ \A r \in RequiredSet :
              Count(Added, r) = IF r \in Range(Found) THEN 0 ELSE 1
        /\ \A i \in DOMAIN Added : Added[i] \in RequiredSet \cup {"\n"}
        /\ \A r \in RequiredSet : r \in Range(gitignore.after[1].content)
        /\ \A i \in DOMAIN gitignore.after : gitignore.after[i] = gitignore.after[1]

\* merged twice, on a file that had /out and lacked /include
C16_Witness ==
    /\ gitignore # Idle /\ Len(gitignore.after) = 2
    /\ gitignore.original.exists
    /\ "/out" \in Range(Found) /\ "/include" \notin Range(Found)
    /\ "/include" \in Range(gitignore.file.content)

(***************************************************************************)
(* The subprocesses.                                                       *)
(***************************************************************************)
\* the characters of a stream, in order
WrittenTo(chars, st) == SelectSeq(chars, LAMBDA c : c.stream = st)
\* the characters are all the child wrote
Complete(chars) ==
    \A st \in Streams : WrittenTo(chars, st) = WrittenTo(childProcess.script, st)
\* the child was started
Spawned == childProcess # Idle /\ childProcess.phase \notin {"created", "unspawned"}

\* C17: a subprocess that exits with code 0 makes cmd succeed with all the
\* child wrote to stdout and stderr; one that exits with another code makes
\* it fail with an InitError that holds the command string, the exit code and
\* that whole output; and cmd settles only when the child has ended and its
\* output streams are closed.
C17_CmdOutcome ==
    Spawned =>
        LET c == childProcess IN
        /\ c.promise.state # "pending" => c.phase = "closed"
        /\ c.phase = "closed" /\ CodeIsZero(c.ending) =>
              /\ c.promise.state = "fulfilled"
              /\ c.promise.value = c.output
              /\ Complete(c.promise.value)
        /\ c.phase = "closed" /\ ~c.ending.null /\ c.ending.code # 0 =>
              /\ c.promise.state = "rejected"
              /\ c.promise.value.class = "InitError"
              /\ c.promise.value.command = c.cmdStr
              /\ c.promise.value.code = c.ending
              /\ Complete(c.promise.value.output)

(***************************************************************************)
(* The auxiliary repositories.                                             *)
(***************************************************************************)
IsClone(o) == o.op = "cmd" /\ o.arg = "git clone"
\* the clones attempted so far, in order
Clones == SelectSeq(ops, IsClone)
\* an entry is for the active template: its list is absent, empty, or holds it
ForTemplate(entry) ==
    \/ entry.templates = None
    \/ entry.templates[1] = <<>>
    \/ template \in Range(entry.templates[1])
\* the configured entries, none unless repositories.json was read
Configured == IF repoFile.state = "ok" THEN repoFile.repositories ELSE <<>>
\* the entries to clone, in the order of the configuration
ToClone == SelectSeq(Configured, ForTemplate)
\* the clone C18 describes for an entry
ShallowClone(entry) ==
    [op |-> "cmd", arg |-> "git clone",
     url |-> IF gitProtocol = "ssh" THEN entry.ssh ELSE entry.https,
     dest |-> Resolve(dir[1]) \o entry.destination, depth |-> 1]
\* the clone step is behind the run
ClonedAll == pc \in {"build", "buildCmd", "done"} \/ (pc = "failed" /\ Rank("Compiling..") \in StartedRanks)

\* C18: the clones attempted are those of the entries whose templates list is
\* absent, empty or holds the active template, once each, in the order of the
\* configuration (all of them once the clone step is over, a beginning of
\* them before); each is a depth-1 clone of the ssh URL (protocol ssh) or the
\* https URL (protocol https) into <destination>/<entry.destination>, issued
\* right after the parent of that path has been created; no other entry is
\* cloned.
C18_ClonesAttempted ==
    /\ Len(Clones) <= Len(ToClone)
    /\ \A i \in DOMAIN Clones : Clones[i] = ShallowClone(ToClone[i])
    /\ Clones # <<>> => gitProtocol \in GitProtocols
    /\ \A i \in DOMAIN ops :
          IsClone(ops[i]) =>
              /\ i > 1
              /\ ops[i - 1] = [op |-> "ensureDir", arg |-> "parent",
                               path |-> SubSeq(ops[i].dest, 1, Len(ops[i].dest) - 1)]
    /\ ClonedAll => Len(Clones) = Len(ToClone)

\* a package run over https that is done: the first entry, for the game
\* template only, was passed over and the second was cloned
C18_Witness ==
    /\ pc = "done" /\ template = "package" /\ gitProtocol = "https"
    /\ Len(Configured) = 2
    /\ Configured[1].templates = Some(<<"game">>)
    /\ Len(Clones) = 1
    /\ Clones[1].url = Configured[2].https

\* the clone of a repository has failed
CloneFailed == pc = "failed" /\ err = "clone"

\* C19: when the clone of an applicable repository fails, the failing clone
\* is the last call of the run (no later entry is cloned, the build does not
\* run), the run ends with an InitError that names the failing repository,
\* holds the underlying error and gives the hint, and the repositories
\* cloned before are still on disk.
C19_CloneFailure ==
    CloneFailed =>
        /\ ~ENABLED Next
        /\ Clones # <<>> /\ Len(Clones) <= Len(ToClone)
        /\ ops[Len(ops)] = ShallowClone(ToClone[Len(Clones)])
        /\ Rank("Compiling..") \notin StartedRanks
        /\ DOMAIN errDetail = {"class", "repo", "cause", "hint"}
        /\ errDetail.class = "InitError"
        /\ errDetail.repo = ToClone[Len(Clones)].name
        /\ errDetail.cause \in {CmdError("git clone"), SpawnError("git clone")}
        /\ errDetail.hint
        /\ \A i \in 1..(Len(Clones) - 1) : Clones[i].dest \in fs.made

\* the second clone fails after the first has succeeded
C19_Witness ==
    /\ CloneFailed /\ Len(Clones) = 2 /\ Len(ToClone) = 2
    /\ errDetail.repo = "beta"
    /\ Clones[1].dest \in fs.made /\ Clones[2].dest \notin fs.made

\* repositories.json is missing or is not JSON
NoConfigFile == repoFile.state \in {"missing", "malformed"}

\* C20: with repositories.json missing or unparseable the run goes as with
\* no repository configured: the load raises no error, the git-protocol
\* question is not shown, nothing is cloned, and a run that is done has run
\* every other due step.
C20_MissingConfigIsEmpty ==
    NoConfigFile /\ pc # "idle" =>
        /\ pc = "failed" => err \in {"validation", "notDirectory", "gitRequired",
                                      "conflict", "fs", "cmd"}
        /\ pc \notin {"start", "promptDir", "ensureDir", "probe", "probing", "loadConfig",
                      "failed", "exited"} => ~HasRepositories
        /\ "gitProtocol" \notin Range(asked)
        /\ cancelled # "gitProtocol"
        /\ Clones = <<>>
        /\ Rank("Cloning repositories..") \notin StartedRanks
        /\ \A i \in DOMAIN ops : ops[i].op # "ensureDir" \/ ops[i] = MkdirDestination
        /\ pc = "done" =>
              \A r \in DOMAIN StepLabels : r # 6 /\ Due(r) => r \in StartedRanks

\* a run with an unparseable repositories.json that asked its questions and
\* is done
C20_Witness ==
    /\ repoFile.state = "malformed" /\ pc = "done"
    /\ asked # <<>> /\ Len(Started) >= 5

(***************************************************************************)
(* The order of events in a run.                                           *)
(***************************************************************************)
IsCmd(o) == o.op = "cmd"
\* the run is over
Ended == pc \in {"done", "failed", "exited"}

\* C21: at most one subprocess started by init is running at any moment;
\* while one is running init is suspended in its await, the call that started
\* it is the last call init has issued (no filesystem call and no label of a
\* next step follows it), and when the run is over none is running.
C21_OneSubprocessAtATime ==
    /\ Cardinality(children) <= 1
    /\ \A c \in children : IsCmd(c)
    /\ children # {} =>
          /\ pc \in Awaiting
          /\ ops # <<>> /\ ops[Len(ops)] \in children
    /\ Ended => children = {}

\* the second clone is running, after git init, the install and the first
\* clone have closed
C21_Witness ==
    /\ pc = "cloneCmd" /\ cloneIdx = 2
    /\ children = {ops[Len(ops)]}
    /\ Cardinality({i \in DOMAIN ops : IsCmd(ops[i])}) = 4

\* the run has gone past the await of line 124
PastProbe ==
    \/ pc \in {"loadConfig", "askTemplate", "askPackageManager", "askGitProtocol",
               "check"} \cup Steps
    \/ pc = "failed" /\ err \notin {"validation", "notDirectory"}
    \/ pc = "exited" /\ cancelled # "dir"

\* C22: the four lookups are issued together; the run goes past the probe only
\* when all four have settled, each with its own outcome, fulfilled or
\* rejected, in whatever order; every tool is counted as available or not by
\* its own lookup; while lookups are pending each of them can still settle,
\* whatever the others did; and a rejected lookup does not end the run: the
\* only failure of the probe is a git lookup that fulfilled with nothing.
C22_ProbeJoin ==
    /\ (\E t \in Range(Tools) : lookups[t] # "idle") =>
          \A t \in Range(Tools) : lookups[t] # "idle"
    /\ \A t \in Range(Tools) :
          /\ lookups[t] \in {"idle", "pending", lookpathResult[t]}
          /\ lookups[t] = "pending" => ENABLED LookupSettles(t)
    /\ PastProbe =>
          /\ \A t \in Range(Tools) :
                /\ lookups[t] = lookpathResult[t]
                /\ avail[t] = (lookpathResult[t] # "notfound")
          /\ (pc = "failed" /\ err = "gitRequired") = (lookpathResult["git"] = "notfound")

\* a run that is done although the lookups of npm and git rejected
C22_Witness ==
    /\ pc = "done"
    /\ lookups["npm"] = "rejected" /\ lookups["git"] = "rejected"
    /\ lookups["pnpm"] = "notfound" /\ lookups["yarn"] = "found"
    /\ avail["npm"] /\ avail["git"] /\ ~avail["pnpm"] /\ avail["yarn"]

\* repositories.json has been looked for (lines 143-151)
ConfigLoaded == PastProbe /\ pc # "loadConfig" /\ ~(pc = "failed" /\ err = "gitRequired")

\* C23: until the probe has completed no question has been asked, the
\* directory question included, and nothing has been written; and no question
\* is asked before repositories.json has been loaded.
C23_PhaseOrder ==
    /\ ~PastProbe => asked = <<>> /\ ops = <<>> /\ fs = fs0
    /\ asked # <<>> => ConfigLoaded

\* the package managers whose install or build command a call runs
ManagersOf(o) ==
    {m \in Range(PackageManagers) :
        IsCmd(o) /\ o.arg \in {InstallCommand(m), BuildCommand(m)}}

\* C24: every install or build command that is run is a command of a package
\* manager the probe reported as installed.
C24_InstalledManagerUsed ==
    \A i \in DOMAIN ops : \A m \in ManagersOf(ops[i]) : avail[m]

(***************************************************************************)
(* The lines of .gitignore.                                                *)
(***************************************************************************)
\* the lines of a content: its longest stretches without a line break
LinesOf(content) ==
    {SubSeq(content, i, j) : <<i, j>> \in
        {ij \in (1..(Len(content) + 1)) \X (0..Len(content)) :
            /\ ij[2] >= ij[1] - 1
            /\ \A k \in ij[1]..ij[2] : content[k] # "\n"
            /\ ij[1] = 1 \/ content[ij[1] - 1] = "\n"
            /\ ij[2] = Len(content) \/ content[ij[2] + 1] = "\n"}}

\* C25: after the merge each of the four required entries is a line of
\* .gitignore, whatever the template's .gitignore held.
C25_RequiredRulesAreLines ==
    gitignore # Idle /\ gitignore.after # <<>> =>
        \A r \in RequiredSet : <<r>> \in LinesOf(gitignore.after[1].content)

(***************************************************************************)
(* The cloud-test runner.                                                  *)
(***************************************************************************)
\* a poll that ends the wait: the task is COMPLETE or FAILED
Final(c) == ~c.error /\ c.status = 200 /\ c.body.state \in {"COMPLETE", "FAILED"}
\* a poll that cannot be read: network error, status other than 200, or a
\* body that is no JSON value with a state field to look at
Aborting(c) == c.error \/ c.status # 200 \/ c.body.text \in {"garbage", "null"}
\* what holds of a call of getTestResults at every moment
PollSafe ==
    LET p == poll
        last == p.seen[Len(p.seen)]
    IN  /\ p.gets <= p.maxRetries
        /\ Len(p.timers) = p.gets + (IF p.phase = "waiting" THEN 1 ELSE 0)
        /\ \A k \in DOMAIN p.timers : p.timers[k] = p.retryDelay
        /\ Len(p.seen) = p.gets - (IF p.phase = "requesting" THEN 1 ELSE 0)
        /\ \A k \in 1..(Len(p.seen) - 1) : ~Final(p.seen[k]) /\ ~Aborting(p.seen[k])
        /\ (p.seen # <<>> /\ Final(last)) =>
              p.outcome = [state |-> "returned", value |-> last.body]
        /\ (p.seen # <<>> /\ Aborting(last)) =>
              p.outcome.state = "thrown" /\ p.outcome.value # "timeout"
        /\ p.outcome.state = "returned" => p.seen # <<>> /\ Final(last)
        /\ p.outcome = [state |-> "thrown", value |-> "timeout"] <=>
              /\ p.phase = "over"
              /\ p.gets = p.maxRetries
              /\ \A k \in DOMAIN p.seen : ~Final(p.seen[k]) /\ ~Aborting(p.seen[k])
        /\ (p.phase = "over") = (p.outcome # Pending)
        /\ p.phase = "over" => ~ENABLED PollNext

\* C26: getTestResults terminates when every request completes; it waits
\* retryDelay before each poll, sends at most maxRetries GET requests, returns
\* the first polled task whose state is COMPLETE or FAILED and polls no more,
\* throws the timeout error after exactly maxRetries polls when no poll showed
\* such a state, and stops with the error of the poll, without another poll,
\* when a poll ends in a network error, a status other than 200 or a body it
\* cannot read.
C26_PollTerminates == []PollSafe /\ <>(poll.phase = "over")

\* three polls, none of them final: the timeout
C26_Witness ==
    /\ poll # Idle /\ poll.maxRetries = 3 /\ poll.gets = 3
    /\ poll.outcome = [state |-> "thrown", value |-> "timeout"]
    /\ poll.timers = <<2000, 2000, 2000>>

\* the steps of a run that went through
AllSteps(skipBuild) ==
    <<"validate">> \o (IF skipBuild THEN <<>> ELSE <<"build">>)
        \o <<"upload", "submit", "poll", "display">>
\* the test script reported success: results are there, none of the tests
\* failed
ReportedSuccess(t) ==
    t.output.kind = "results" /\ t.output.results.success /\ t.output.results.failed = 0

\* C27: a run of the pipeline exits with code 0 exactly when every step
\* succeeded, the task ended COMPLETE and the results of the test script
\* report success, and with code 1 otherwise; after a failed step no later
\* step has run.
C27_ExitCode ==
    (runner # Idle /\ runner.pc = "exited" /\ ~runner.help) =>
        /\ runner.exitCode \in {0, 1}
        /\ runner.exitCode = 0 <=>
              /\ runner.failed = "none"
              /\ runner.steps = AllSteps(runner.skipBuild)
              /\ runner.testResults.state = "COMPLETE"
              /\ ReportedSuccess(runner.testResults)
        /\ runner.failed # "none" =>
              /\ runner.steps[Len(runner.steps)] = runner.failed
              /\ ~ENABLED RunnerNext


(***************************************************************************)
(* The link scripts                                                        *)
(***************************************************************************)
\* C28: with --dry-run a link script changes nothing in the file system,
\* whatever the targets hold and whatever .claude held, and it does not
\* exit with code 1.
C28_DryRunChangesNothing ==
    (links # Idle /\ links.dryRun) =>
        /\ links.fs = links.fs0
        /\ links.exitCode # 1
\* a preview of link-claude-code-staffs that went over a name already taken
\* by a link, with a directory of .claude missing, and ended
C28_Witness ==
    /\ links # Idle /\ links.dryRun /\ links.pc = "done"
    /\ links.script = "staffs" /\ links.totalItems = 3
    /\ "commands" \notin links.fs0.dirs
    /\ \E i \in 1..Len(links.items) :
          links.fs0.entries[KeyOf(links.items[i])].kind = "symlink"

\* C29: without --dry-run createSymlink overwrites whatever holds the name:
\* the path is a symlink to the absolute source afterwards, the call
\* returned true and the run counted a success.
C29_Overwrites ==
    (links # Idle /\ ~links.dryRun) =>
        /\ \A i \in 1..Len(links.results) :
              /\ links.results[i]
              /\ links.fs.entries[KeyOf(links.items[i])]
                    = Symlink(ResolvePath(links.items[i].source))
        /\ links.successCount = links.totalItems


(***************************************************************************)
(* The package-linking script                                              *)
(***************************************************************************)
\* a dependency of the project's scope has no folder beside the project
SiblingMissing ==
    \E i \in 1..Len(packages.deps) :
        /\ IsWhiteDragon(packages.deps[i])
        /\ packages.siblings[FolderName(packages.deps[i])] = "missing"
\* what the run has made under node_modules/@white-dragon-bevy
MadeByRun(p) == p.out = "link" \/ p.manifest = "copy"

\* C30: when a dependency of the scope has no sibling directory the
\* package-linking script exits with code 1, has made no package directory,
\* link or copy, and node_modules/@white-dragon-bevy is as it was before the
\* run; no link is made before every package has been validated.
C30_MissingSiblingLeavesNoTrace ==
    packages # Idle =>
        /\ (packages.pc = "exited" /\ ~packages.ci /\ SiblingMissing) =>
              /\ packages.exitCode = 1
              /\ \A f \in Folders : ~MadeByRun(packages.nodeModules.pkgs[f])
              /\ packages.nodeModules = packages.nodeModules0
        /\ packages.linked > 0 =>
              Len(packages.packagePaths) = Len(packages.whiteDragonPackages)

====
